---- MODULE Spec2Model ----
(***************************************************************************)
(* Real-time messaging core of the chat application: presence registry,    *)
(* socket.io routing groups, the send_message / private_message            *)
(* dispatcher, the REST message routes and the history pagination.         *)
(***************************************************************************)
EXTENDS Naturals, Integers, Sequences, FiniteSets, TLC

\* ------------------------------------------------------------------ bounds
MaxConns == 3
MaxInflight == 1
MaxMessages == 1
MaxLen == 2
MaxStored == 4
MaxPage == 2
RegisterMax == 2
ListMax == 3
WindowMs == 1500
TickMs == 500
MaxTime == 2500
MaxCount == 4

\* --------------------------------------------------------- program constants
MaxContentLength == 2000
MaxFileUrlLength == 500
MinLimit == 1
MaxLimit == 50
DefaultLimit == 20

\* ------------------------------------------------------------ the database
\* Rows of the "User" table (uuid primary keys).
Users == {"u1", "u2", "u3"}

\* Rows of the "Room" table: id -> visibility and creator.
RoomTable ==
  [r \in {"r1", "r2"} |->
     IF r = "r1" THEN [isPrivate |-> FALSE, creatorId |-> "u2"]
                 ELSE [isPrivate |-> TRUE, creatorId |-> "u1"]]

Rooms == DOMAIN RoomTable

\* Strings that satisfy z.string().uuid(); "x9" is a well-formed uuid that
\* names no row.
Uuids == Users \cup Rooms \cup {"x9"}

\* Sentinels for a missing object key (undefined) and for SQL NULL.
Absent == "absent"
Null == "null"

\* ------------------------------------------------------------------ strings
\* A string is a sequence of characters; each character stands for a class
\* of code points:
\*   "a"    an ordinary printable character
\*   "sp"   U+0020, white space that is not a control character
\*   "tab"  U+0009, a C0 control character that is also white space
\*   "c0"   U+0001, a C0 control character that is not white space
\*   "c1"   U+0085, a C1 control character (not white space for trim())
\*   "lt"   '<'        "gt"   '>'
Chars == {"a", "sp", "tab", "c0", "c1", "lt", "gt"}

\* /[\u0000-\u001F\u007F]/
CONTROL_CHARACTERS_REGEX(ch) == ch \in {"tab", "c0"}

\* /[<>]/
AngleRegex(ch) == ch \in {"lt", "gt"}

\* White space as String.prototype.trim() sees it.
IsWhiteSpace(ch) == ch \in {"sp", "tab"}

\* .replace(CONTROL_CHARACTERS_REGEX, "")
ReplaceControl(s) == SelectSeq(s, LAMBDA ch : ~CONTROL_CHARACTERS_REGEX(ch))

\* .replace(/[<>]/, ""): without the g flag only the first match goes
ReplaceFirstAngle(s) ==
  LET hits == {k \in 1 .. Len(s) : AngleRegex(s[k])}
  IN  IF hits = {} THEN s
      ELSE LET first == CHOOSE k \in hits : \A j \in hits : k <= j
           IN  SubSeq(s, 1, first - 1) \o SubSeq(s, first + 1, Len(s))

\* .replace(/[<>]/g, "")
ReplaceAngle(s) == SelectSeq(s, LAMBDA ch : ~AngleRegex(ch))

RECURSIVE TrimStart(_)
TrimStart(s) ==
  IF s # <<>> /\ IsWhiteSpace(Head(s)) THEN TrimStart(Tail(s)) ELSE s

RECURSIVE TrimEnd(_)
TrimEnd(s) ==
  IF s # <<>> /\ IsWhiteSpace(s[Len(s)])
    THEN TrimEnd(SubSeq(s, 1, Len(s) - 1))
    ELSE s

\* String.prototype.trim()
Trim(s) == TrimEnd(TrimStart(s))

sanitizeMessageContent(rawContent) ==
  Trim(ReplaceAngle(ReplaceControl(rawContent)))

\* The literal "Shared a file", kept as one token.
SharedAFile == <<"Shared a file">>

\* -------------------------------------------------------------- validators
\* fileUrl values a client can put in a payload.
FileUrls == {"/uploads/f1", "/uploads/ghost", "http://evil/x"}

StartsWithUploads(f) == f \in {"/uploads/f1", "/uploads/ghost"}

\* A payload is a record [roomId, receiverId, content, fileUrl]; a missing
\* key is Absent, and content is [present, text].
NoContent == [present |-> FALSE, text |-> <<>>]
Text(s) == [present |-> TRUE, text |-> s]

\* baseMessageSchema
baseMessageSchema(value) ==
  /\ value.content.present => Len(value.content.text) <= MaxContentLength
  /\ value.fileUrl # Absent => StartsWithUploads(value.fileUrl)

\* .refine((value) => Boolean(value.content?.trim() || value.fileUrl))
ContentOrFile(value) ==
  \/ value.content.present /\ Trim(value.content.text) # <<>>
  \/ value.fileUrl # Absent

sendRoomMessageSchema(value) ==
  /\ baseMessageSchema(value)
  /\ value.roomId \in Uuids
  /\ ContentOrFile(value)

privateMessageSchema(value) ==
  /\ baseMessageSchema(value)
  /\ value.receiverId \in Uuids
  /\ ContentOrFile(value)

\* content: sanitizedContent, with no placeholder
StoredContentNoPlaceholder(data) ==
  sanitizeMessageContent(IF data.content.present
                           THEN data.content.text ELSE <<>>)

\* content: sanitizedContent || (fileUrl ? "Shared a file" : "")
StoredContent(data) ==
  LET sanitizedContent ==
        sanitizeMessageContent(IF data.content.present
                                 THEN data.content.text ELSE <<>>)
  IN  IF sanitizedContent # <<>> THEN sanitizedContent
      ELSE IF data.fileUrl # Absent THEN SharedAFile ELSE <<>>

\* fileUrl: parsed.data.fileUrl ?? null
StoredFileUrl(data) == IF data.fileUrl # Absent THEN data.fileUrl ELSE Null

\* ------------------------------------------------------------------- state
VARIABLES
  status,       \* socket id -> "idle" (not connected) | "open"
  onlineUsers,  \* the presence Map: user id -> set of socket ids
  rooms,        \* socket.io adapter rooms: group -> set of socket ids
  inflight,     \* send requests suspended on the message store
  messages,     \* the "Message" table, in insertion order
  out,          \* what the last socket handler run emitted, in order
  resp,         \* the last HTTP request and its response
  cActive,      \* chat client: the active conversation
  cMessages,    \* chat client: the displayed message list
  cNextBefore,  \* chat client: the cursor of the next older page
  hLoaded,      \* the first page of the active conversation was loaded
  hBase,        \* Len(messages) when that first page was read
  rateStore,    \* the rate limiter's Map: key -> [count, resetAt]
  dateNow,      \* Date.now(), in milliseconds
  decision,     \* what the last enforceRateLimit call returned
  uploads,      \* the paths of the files in public/uploads
  resumable,    \* send handlers whose store call returned, not yet resumed
  cPending,     \* chat client: history requests awaiting their response
  cJoined       \* chat client: the room whose leave_room cleanup is registered

serverVars == <<status, onlineUsers, rooms, inflight, messages, out>>
clientVars == <<cActive, cMessages, cNextBefore, hLoaded, hBase>>
httpVars == <<rateStore, dateNow, decision, uploads>>
asyncVars == <<resumable, cPending, cJoined>>
vars == <<serverVars, resp, clientVars, httpVars, asyncVars>>

Conns == 1 .. MaxConns

\* The principal (socket.data.user) a client's credential verifies to.
ConnUser(c) == IF c <= 2 THEN "u1" ELSE IF c = 3 THEN "u2" ELSE "u3"

\* Room ids a client can name in join_room / leave_room.
JoinIds == Rooms

\* A roomId that spells the name of a user's mailbox group.
MailboxLikeId == "user:u2"

\* `user:${user.sub}` and `room:${payload.roomId}`: the prefix is the first
\* component of a group's name.
Groups ==
  {<<"user", u>> : u \in Users}
  \cup {<<"room", r>> : r \in JoinIds \cup {MailboxLikeId}}

Slots == 1 .. MaxInflight

\* A suspended request: the handler's position and what its closure holds.
NoData == [target |-> Null, content |-> NoContent, fileUrl |-> Absent]
NoRequest ==
  [pc |-> "none", kind |-> "none", conn |-> 0, hasAck |-> FALSE, data |-> NoData]

\* ----------------------------------------------------------------- presence
addOnlineUser(m, userId, socketId) ==
  IF userId \notin DOMAIN m
    THEN [u \in DOMAIN m \cup {userId} |->
            IF u = userId THEN {socketId} ELSE m[u]]
    ELSE [m EXCEPT ![userId] = @ \cup {socketId}]

\* removeOnlineUser returns [map, becameOffline].
removeOnlineUserAlwaysOffline(m, userId, socketId) ==
  IF userId \notin DOMAIN m THEN [map |-> m, becameOffline |-> FALSE]
  ELSE IF m[userId] \ {socketId} = {}
    THEN [map |-> [u \in DOMAIN m \ {userId} |-> m[u]],
          becameOffline |-> TRUE]
    ELSE [map |-> [m EXCEPT ![userId] = @ \ {socketId}],
          becameOffline |-> TRUE]

removeOnlineUserKeepKey(m, userId, socketId) ==
  IF userId \notin DOMAIN m THEN [map |-> m, becameOffline |-> FALSE]
  ELSE [map |-> [m EXCEPT ![userId] = @ \ {socketId}],
        becameOffline |-> m[userId] \ {socketId} = {}]

removeOnlineUser(m, userId, socketId) ==
  IF userId \notin DOMAIN m THEN [map |-> m, becameOffline |-> FALSE]
  ELSE IF m[userId] \ {socketId} = {}
    THEN [map |-> [u \in DOMAIN m \ {userId} |-> m[u]],
          becameOffline |-> TRUE]
    ELSE [map |-> [m EXCEPT ![userId] = @ \ {socketId}],
          becameOffline |-> FALSE]

getOnlineUserIds(m) == DOMAIN m

\* io.emit(event, {userId, onlineUserIds}) reaches every connected socket.
emitPresence(event, userId, m, connected) ==
  [type |-> event, group |-> <<"all", "">>, to |-> connected,
   userId |-> userId, onlineUserIds |-> getOnlineUserIds(m)]

\* ------------------------------------------------------------- credentials
\* A session token (a signed JWT) is modelled by the principal it was signed
\* for; "bad" is a string that fails jwtVerify or the payload schema, "" the
\* empty string.
TokenOf(u) == <<"jwt", u>>
BadToken == <<"jwt", "bad">>
EmptyToken == <<"jwt", "">>
NoToken == <<"none", "">>

\* verifyAuthToken: the principal's sub, or Null.
verifyAuthToken(token) ==
  IF token[1] = "jwt" /\ token[2] \in Users THEN token[2] ELSE Null

AUTH_COOKIE_NAME == "chat_token"

\* A cookie header is NoHeader or a sequence of [name, value] pairs; the
\* first pair named chat_token that has a value wins.
NoHeader == <<[name |-> "", value |-> NoToken]>>

RECURSIVE extractAuthTokenFromCookieHeader(_)
extractAuthTokenFromCookieHeader(cookieHeader) ==
  IF cookieHeader = NoHeader \/ cookieHeader = <<>> THEN NoToken
  ELSE LET cookiePair == Head(cookieHeader)
       IN  IF cookiePair.name = AUTH_COOKIE_NAME /\ cookiePair.value # NoToken
             THEN cookiePair.value
             ELSE extractAuthTokenFromCookieHeader(Tail(cookieHeader))

\* The token the middleware would verify if it read cookieToken ?? authToken.
HandshakeTokenCookieFirst(authField, cookieHeader) ==
  IF extractAuthTokenFromCookieHeader(cookieHeader) # NoToken
    THEN extractAuthTokenFromCookieHeader(cookieHeader)
    ELSE authField

\* The token the handshake middleware verifies: authToken ?? cookieToken.
HandshakeToken(authField, cookieHeader) ==
  IF authField # NoToken THEN authField
  ELSE extractAuthTokenFromCookieHeader(cookieHeader)

\* What a client that holds the session of user u can present.
AuthFields(u) == {NoToken, EmptyToken, BadToken, TokenOf(u)}
CookieHeaders(u) ==
  {NoHeader,
   <<[name |-> "theme", value |-> BadToken]>>,
   <<[name |-> AUTH_COOKIE_NAME, value |-> BadToken]>>,
   <<[name |-> "theme", value |-> BadToken],
     [name |-> AUTH_COOKIE_NAME, value |-> TokenOf(u)]>>}

\* ------------------------------------------------------------------ events
Ack(c, ok, data, error) ==
  [type |-> "ack", group |-> <<"socket", "">>, to |-> {c},
   ok |-> ok, data |-> data, error |-> error]

\* ack?.({ ok: true }) of join_room and leave_room.
BasicAck(c) ==
  [type |-> "basic_ack", group |-> <<"socket", "">>, to |-> {c}, ok |-> TRUE]

ConnectError(c) ==
  [type |-> "connect_error", group |-> <<"socket", "">>, to |-> {c},
   error |-> "Unauthorized."]

\* io.to(group).emit("new_message", message)
NewMessage(group, members, message) ==
  [type |-> "new_message", group |-> group, to |-> members,
   message |-> message]

\* ------------------------------------------------------------ HTTP shapes
\* A request carries the query parameters of GET /api/messages or the JSON
\* body of POST /api/messages; keys a route does not read are left absent.
NoBefore == <<"absent", 0>>
NoLimit == [present |-> FALSE, value |-> 0]
Limit(n) == [present |-> TRUE, value |-> n]

Request(roomId, receiverId, content, fileUrl, before, limit) ==
  [roomId |-> roomId, receiverId |-> receiverId, content |-> content,
   fileUrl |-> fileUrl, before |-> before, limit |-> limit]

NoRequestYet == Request(Absent, Absent, NoContent, Absent, NoBefore, NoLimit)

\* nextBefore: null
NoCursor == <<"null", 0>>

\* A response, with the request it answers and the principal the session
\* cookie resolved to: the status and the messages of the body.
Response(op, req, sub, st, page, nextBefore) ==
  [op |-> op, req |-> req, sub |-> sub, status |-> st, messages |-> page,
   nextBefore |-> nextBefore]

errorResponse(op, req, sub, st) == Response(op, req, sub, st, <<>>, NoCursor)

NoResponse == errorResponse("none", NoRequestYet, Null, 0)

\* enforceRateLimit has not been called.
NoDecision ==
  [key |-> <<"none", "none">>, ok |-> TRUE, retryAfter |-> 0, resetAt |-> 0]

\* activeRoomIdRef / activeDmUserIdRef
NoConversation == [kind |-> "none", id |-> Null]
RoomConversation(r) == [kind |-> "room", id |-> r]
DmConversation(u) == [kind |-> "dm", id |-> u]

Open(st) == {c \in Conns : st[c] = "open"}

Init ==
  /\ status = [c \in Conns |-> "idle"]
  /\ onlineUsers = <<>>
  /\ rooms = [g \in Groups |-> {}]
  /\ inflight = [i \in Slots |-> NoRequest]
  /\ messages = <<>>
  /\ out = <<>>
  /\ resp = NoResponse
  /\ cActive = NoConversation
  /\ cMessages = <<>>
  /\ cNextBefore = NoCursor
  /\ hLoaded = FALSE
  /\ hBase = 0
  /\ rateStore = <<>>
  /\ dateNow = 0
  /\ decision = NoDecision
  /\ uploads = {}
  /\ resumable = {}
  /\ cPending = {}
  /\ cJoined = Null

\* -------------------------------------------------- connection lifecycle
\* io.use(...) followed by io.on("connection"): a client opens socket c.
\* A socket id is not reused while a request of the closed socket is still
\* suspended.
Connect(c, authField, cookieHeader) ==
  /\ status[c] = "idle"
  /\ \A i \in Slots : inflight[i].pc = "none" \/ inflight[i].conn # c
  /\ LET token == HandshakeToken(authField, cookieHeader)
         sub == IF token = NoToken \/ token = EmptyToken
                  THEN Null ELSE verifyAuthToken(token)
     IN  IF sub = Null
           THEN /\ out' = <<ConnectError(c)>>
                /\ UNCHANGED <<status, onlineUsers, rooms>>
           ELSE LET online == addOnlineUser(onlineUsers, sub, c)
                    st == [status EXCEPT ![c] = "open"]
                IN  /\ status' = st
                    /\ onlineUsers' = online
                    /\ rooms' = [rooms EXCEPT ![<<"user", sub>>] = @ \cup {c}]
                    /\ out' = <<emitPresence("user_online", sub, online, Open(st))>>
  /\ UNCHANGED <<inflight, messages, resp, clientVars, asyncVars, httpVars>>

\* A disconnect that also drops the pending requests of the socket.
DisconnectCancelsRequests(c) ==
  /\ status[c] = "open"
  /\ LET user == ConnUser(c)
         removed == removeOnlineUser(onlineUsers, user, c)
         st == [status EXCEPT ![c] = "idle"]
     IN  /\ status' = st
         /\ rooms' = [g \in Groups |-> rooms[g] \ {c}]
         /\ onlineUsers' = removed.map
         /\ out' = IF removed.becameOffline
                     THEN <<emitPresence("user_offline", user, removed.map, Open(st))>>
                     ELSE <<>>
  /\ inflight' = [i \in Slots |->
                    IF inflight[i].conn = c THEN NoRequest ELSE inflight[i]]
  /\ UNCHANGED <<messages, resp, clientVars, asyncVars, httpVars>>

\* socket.on("disconnect"): the socket has left every group when it runs.
Disconnect(c) ==
  /\ status[c] = "open"
  /\ LET user == ConnUser(c)
         removed == removeOnlineUser(onlineUsers, user, c)
         st == [status EXCEPT ![c] = "idle"]
     IN  /\ status' = st
         /\ rooms' = [g \in Groups |-> rooms[g] \ {c}]
         /\ onlineUsers' = removed.map
         /\ out' = IF removed.becameOffline
                     THEN <<emitPresence("user_offline", user, removed.map, Open(st))>>
                     ELSE <<>>
  /\ UNCHANGED <<inflight, messages, resp, clientVars, asyncVars, httpVars>>

\* socket.on("join_room") that joins the group named by the payload as it is
JoinRoomUnprefixed(c, roomId) ==
  /\ status[c] = "open"
  /\ rooms' = [rooms EXCEPT ![IF roomId = MailboxLikeId THEN <<"user", "u2">>
                               ELSE <<"room", roomId>>] = @ \cup {c}]
  /\ out' = <<BasicAck(c)>>
  /\ UNCHANGED <<status, onlineUsers, inflight, messages, resp, clientVars, asyncVars, httpVars>>

\* socket.on("join_room")
JoinRoom(c, roomId) ==
  /\ status[c] = "open"
  /\ rooms' = [rooms EXCEPT ![<<"room", roomId>>] = @ \cup {c}]
  /\ out' = <<BasicAck(c)>>
  /\ UNCHANGED <<status, onlineUsers, inflight, messages, resp, clientVars, asyncVars, httpVars>>

\* socket.on("leave_room")
LeaveRoom(c, roomId) ==
  /\ status[c] = "open"
  /\ rooms' = [rooms EXCEPT ![<<"room", roomId>>] = @ \ {c}]
  /\ out' = <<BasicAck(c)>>
  /\ UNCHANGED <<status, onlineUsers, inflight, messages, resp, clientVars, asyncVars, httpVars>>

\* ------------------------------------------------------- message store
UserName(u) == <<"name", u>>

\* A key of a payload holds a non-empty string: if (payload.roomId).
Truthy(v) == v \notin {Absent, ""}

\* The sockets in a group; a group nobody joined has no entry.
Members(rms, g) == IF g \in DOMAIN rms THEN rms[g] ELSE {}

\* TypingPayload, with a userId key that the type does not declare.
TypingPayload(roomId, receiverId, isTyping, userId) ==
  [roomId |-> roomId, receiverId |-> receiverId, isTyping |-> isTyping,
   userId |-> userId]

\* socket.to(group).emit("typing", {...}): every member but the socket itself.
TypingEvent(group, members, roomId, receiverId, user, isTyping) ==
  [type |-> "typing", group |-> group, to |-> members, roomId |-> roomId,
   receiverId |-> receiverId, userId |-> user, userName |-> UserName(user),
   isTyping |-> isTyping]

\* socket.on("typing") that copies userId from the payload when it has one
TypingTrustsPayload(c, payload) ==
  LET user == IF payload.userId # Absent THEN payload.userId ELSE ConnUser(c)
      toRoom == <<"room", payload.roomId>>
      toUser == <<"user", payload.receiverId>>
  IN  /\ status[c] = "open"
      /\ out' =
           (IF Truthy(payload.roomId)
              THEN <<TypingEvent(toRoom, Members(rooms, toRoom) \ {c},
                                 payload.roomId, Absent, user,
                                 payload.isTyping)>>
              ELSE <<>>)
           \o (IF Truthy(payload.receiverId)
                 THEN <<TypingEvent(toUser, Members(rooms, toUser) \ {c},
                                    Absent, payload.receiverId, user,
                                    payload.isTyping)>>
                 ELSE <<>>)
      /\ UNCHANGED <<status, onlineUsers, rooms, inflight, messages, resp,
                     clientVars, asyncVars, httpVars>>

\* socket.on("typing")
Typing(c, payload) ==
  LET user == ConnUser(c)
      toRoom == <<"room", payload.roomId>>
      toUser == <<"user", payload.receiverId>>
  IN  /\ status[c] = "open"
      /\ out' =
           (IF Truthy(payload.roomId)
              THEN <<TypingEvent(toRoom, Members(rooms, toRoom) \ {c},
                                 payload.roomId, Absent, user,
                                 payload.isTyping)>>
              ELSE <<>>)
           \o (IF Truthy(payload.receiverId)
                 THEN <<TypingEvent(toUser, Members(rooms, toUser) \ {c},
                                    Absent, payload.receiverId, user,
                                    payload.isTyping)>>
                 ELSE <<>>)
      /\ UNCHANGED <<status, onlineUsers, rooms, inflight, messages, resp,
                     clientVars, asyncVars, httpVars>>


\* Date.prototype.toISOString and new Date(iso): millisecond precision both
\* ways, the precision of the TIMESTAMP(3) column.
toISOString(ms) == <<"iso", ms>>
ParseDate(iso) == iso[2]

\* The database clock (createdAt DEFAULT CURRENT_TIMESTAMP, millisecond
\* precision) when a row is inserted: the first row is stamped 0, a later
\* one falls in the millisecond of the newest row or in the next one.
Now(store) == IF store = <<>> THEN 0 ELSE store[Len(store)].createdAt + 1
Nows(store) ==
  {Now(store)} \cup {store[i].createdAt : i \in {Len(store)} \ {0}}

\* prisma.message.create: id and createdAt are generated by the store.
CreateRow(store, now, senderId, roomId, receiverId, content, fileUrl) ==
  [id |-> Len(store) + 1, content |-> content, fileUrl |-> fileUrl,
   senderId |-> senderId, roomId |-> roomId, receiverId |-> receiverId,
   createdAt |-> now]

mapMessage(message) ==
  [id |-> message.id, content |-> message.content,
   fileUrl |-> message.fileUrl, senderId |-> message.senderId,
   senderName |-> UserName(message.senderId), roomId |-> message.roomId,
   receiverId |-> message.receiverId,
   createdAt |-> toISOString(message.createdAt)]

NoMessage == mapMessage(CreateRow(<<>>, 0, Null, Null, Null, <<>>, Null))

\* io.to(`room:${message.roomId}`).emit("new_message", message)
RoomBroadcastToAll(message, rms) ==
  <<NewMessage(<<"all", "">>, UNION {rms[g] : g \in Groups}, message)>>

RoomBroadcast(message, rms) ==
  <<NewMessage(<<"room", message.roomId>>, rms[<<"room", message.roomId>>],
               message)>>

\* io.to(`user:${message.senderId}`).emit(...) and then
\* io.to(`user:${message.receiverId}`).emit(...)
PrivateBroadcastReceiverOnly(message, rms) ==
  <<NewMessage(<<"user", message.receiverId>>,
               rms[<<"user", message.receiverId>>], message)>>

PrivateBroadcast(message, rms) ==
  <<NewMessage(<<"user", message.senderId>>,
               rms[<<"user", message.senderId>>], message),
    NewMessage(<<"user", message.receiverId>>,
               rms[<<"user", message.receiverId>>], message)>>

FreeSlots == {i \in Slots : inflight[i].pc = "none"}

\* ack?.(response): nothing is sent when the client passed no callback.
AckIf(hasAck, c, ok, data, error) ==
  IF hasAck THEN <<Ack(c, ok, data, error)>> ELSE <<>>

\* The catch block of both handlers: the request ends with {ok:false}.
FailSilently(i, error) ==
  /\ inflight' = [inflight EXCEPT ![i] = NoRequest]
  /\ out' = <<>>
  /\ UNCHANGED <<status, onlineUsers, rooms, messages, resp, clientVars, asyncVars, httpVars>>

Fail(i, error) ==
  /\ inflight' = [inflight EXCEPT ![i] = NoRequest]
  /\ out' = AckIf(inflight[i].hasAck, inflight[i].conn, FALSE, NoMessage, error)
  /\ UNCHANGED <<status, onlineUsers, rooms, messages, resp, clientVars, asyncVars, httpVars>>

\* ------------------------------------------------------------- dispatcher
\* socket.on("send_message") up to the first await of createRoomMessage.
SendMessage(c, payload, hasAck) ==
  /\ status[c] = "open"
  /\ IF ~sendRoomMessageSchema(payload)
       THEN /\ out' = AckIf(hasAck, c, FALSE, NoMessage, "Invalid payload.")
            /\ UNCHANGED inflight
       ELSE /\ FreeSlots # {}
            /\ LET i == CHOOSE j \in FreeSlots : \A k \in FreeSlots : j <= k
               IN  inflight' = [inflight EXCEPT ![i] =
                     [pc |-> "find", kind |-> "room", conn |-> c,
                      hasAck |-> hasAck,
                      data |-> [target |-> payload.roomId,
                                content |-> payload.content,
                                fileUrl |-> payload.fileUrl]]]
            /\ out' = <<>>
  /\ UNCHANGED <<status, onlineUsers, rooms, messages, resp, clientVars, asyncVars, httpVars>>

\* createRoomMessage resumes after prisma.room.findUnique.
RoomFoundPersistsFirst(i, storeFails) ==
  /\ inflight[i].pc = "find"
  /\ inflight[i].kind = "room"
  /\ IF storeFails THEN Fail(i, "Failed to send message.")
     ELSE IF inflight[i].data.target \notin Rooms
       THEN /\ Len(messages) < MaxMessages
            /\ messages' = Append(messages,
                  CreateRow(messages, Now(messages), ConnUser(inflight[i].conn),
                            inflight[i].data.target, Null,
                            StoredContent(inflight[i].data),
                            StoredFileUrl(inflight[i].data)))
            /\ inflight' = [inflight EXCEPT ![i] = NoRequest]
            /\ out' = AckIf(inflight[i].hasAck, inflight[i].conn, FALSE,
                            NoMessage, "Room not found.")
            /\ UNCHANGED <<status, onlineUsers, rooms, resp, clientVars, asyncVars, httpVars>>
     ELSE /\ inflight' = [inflight EXCEPT ![i].pc = "create"]
          /\ out' = <<>>
          /\ UNCHANGED <<status, onlineUsers, rooms, messages, resp, clientVars, asyncVars, httpVars>>

RoomFound(i, storeFails) ==
  /\ inflight[i].pc = "find"
  /\ inflight[i].kind = "room"
  /\ IF storeFails THEN Fail(i, "Failed to send message.")
     ELSE IF inflight[i].data.target \notin Rooms THEN Fail(i, "Room not found.")
     ELSE /\ inflight' = [inflight EXCEPT ![i].pc = "create"]
          /\ out' = <<>>
          /\ UNCHANGED <<status, onlineUsers, rooms, messages, resp, clientVars, asyncVars, httpVars>>

\* createRoomMessage resumes after prisma.message.create, and the handler
\* broadcasts and acknowledges.
RoomMessageCreated(i, storeFails, now) ==
  /\ inflight[i].pc = "create"
  /\ inflight[i].kind = "room"
  /\ IF storeFails THEN Fail(i, "Failed to send message.")
     ELSE /\ Len(messages) < MaxMessages
          /\ LET req == inflight[i]
                 row == CreateRow(messages, now, ConnUser(req.conn),
                                  req.data.target, Null,
                                  StoredContent(req.data),
                                  StoredFileUrl(req.data))
                 message == mapMessage(row)
             IN  /\ messages' = Append(messages, row)
                 /\ inflight' = [inflight EXCEPT ![i] = NoRequest]
                 /\ out' =
                      IF message.roomId = Null
                        THEN AckIf(req.hasAck, req.conn, FALSE, NoMessage,
                                   "Invalid room message.")
                        ELSE RoomBroadcast(message, rooms)
                             \o AckIf(req.hasAck, req.conn, TRUE, message, "")
          /\ UNCHANGED <<status, onlineUsers, rooms, resp, clientVars, asyncVars, httpVars>>

\* socket.on("private_message") up to the first await of
\* createPrivateMessage.
PrivateMessage(c, payload, hasAck) ==
  /\ status[c] = "open"
  /\ IF ~privateMessageSchema(payload)
       THEN /\ out' = AckIf(hasAck, c, FALSE, NoMessage, "Invalid payload.")
            /\ UNCHANGED inflight
       ELSE /\ FreeSlots # {}
            /\ LET i == CHOOSE j \in FreeSlots : \A k \in FreeSlots : j <= k
               IN  inflight' = [inflight EXCEPT ![i] =
                     [pc |-> "find", kind |-> "dm", conn |-> c,
                      hasAck |-> hasAck,
                      data |-> [target |-> payload.receiverId,
                                content |-> payload.content,
                                fileUrl |-> payload.fileUrl]]]
            /\ out' = <<>>
  /\ UNCHANGED <<status, onlineUsers, rooms, messages, resp, clientVars, asyncVars, httpVars>>

\* createPrivateMessage resumes after prisma.user.findUnique.
RecipientFound(i, storeFails) ==
  /\ inflight[i].pc = "find"
  /\ inflight[i].kind = "dm"
  /\ IF storeFails THEN Fail(i, "Failed to send message.")
     ELSE IF inflight[i].data.target \notin Users
       THEN Fail(i, "Recipient not found.")
     ELSE /\ inflight' = [inflight EXCEPT ![i].pc = "create"]
          /\ out' = <<>>
          /\ UNCHANGED <<status, onlineUsers, rooms, messages, resp, clientVars, asyncVars, httpVars>>

\* createPrivateMessage resumes after prisma.message.create, and the handler
\* emits to both mailboxes and acknowledges.
PrivateMessageCreated(i, storeFails, now) ==
  /\ inflight[i].pc = "create"
  /\ inflight[i].kind = "dm"
  /\ IF storeFails THEN Fail(i, "Failed to send message.")
     ELSE /\ Len(messages) < MaxMessages
          /\ LET req == inflight[i]
                 row == CreateRow(messages, now, ConnUser(req.conn),
                                  Null, req.data.target,
                                  StoredContent(req.data),
                                  StoredFileUrl(req.data))
                 message == mapMessage(row)
             IN  /\ messages' = Append(messages, row)
                 /\ inflight' = [inflight EXCEPT ![i] = NoRequest]
                 /\ out' =
                      IF message.receiverId = Null
                        THEN AckIf(req.hasAck, req.conn, FALSE, NoMessage,
                                   "Invalid private message.")
                        ELSE PrivateBroadcast(message, rooms)
                             \o AckIf(req.hasAck, req.conn, TRUE, message, "")
          /\ UNCHANGED <<status, onlineUsers, rooms, resp, clientVars, asyncVars, httpVars>>

\* ------------------------------------------------------ /api/messages
\* getAuthPayloadFromRequest: the principal of the session cookie, or Null.
getAuthPayloadFromRequest(cookieHeader) ==
  LET token == extractAuthTokenFromCookieHeader(cookieHeader)
  IN  IF token \in {NoToken, EmptyToken} THEN Null
      ELSE verifyAuthToken(token)

\* z.string().datetime()
IsDatetime(b) == b[1] = "iso"

\* messageHistoryQuerySchema: limit is an integer in MinLimit..MaxLimit, and
\* exactly one of roomId and receiverId is given.
messageHistoryQuerySchema(value) ==
  /\ value.roomId # Absent => value.roomId \in Uuids
  /\ value.receiverId # Absent => value.receiverId \in Uuids
  /\ value.before # NoBefore => IsDatetime(value.before)
  /\ value.limit.present => value.limit.value \in MinLimit..MaxLimit
  /\ (value.roomId # Absent) # (value.receiverId # Absent)

\* .default(20)
ParsedLimit(value) ==
  IF value.limit.present THEN value.limit.value ELSE DefaultLimit

\* where.createdAt = { lte: beforeDate }
CreatedBeforeOrAt(row, beforeDate) == row.createdAt <= beforeDate

\* where.createdAt = { lt: beforeDate }
CreatedBefore(row, beforeDate) == row.createdAt < beforeDate

\* The where clause GET builds for principal sub from the parsed query.
Where(sub, data, row) ==
  /\ data.roomId # Absent => row.roomId = data.roomId
  /\ data.receiverId # Absent =>
       \/ row.senderId = sub /\ row.receiverId = data.receiverId
       \/ row.senderId = data.receiverId /\ row.receiverId = sub
  /\ data.before # NoBefore => CreatedBefore(row, ParseDate(data.before))

Matching(sub, data, store) ==
  {store[i] : i \in {j \in 1..Len(store) : Where(sub, data, store[j])}}

Take(s, n) == SubSeq(s, 1, IF Len(s) < n THEN Len(s) ELSE n)

\* rows.reverse() left out: the rows stay newest first
KeepOrder(s) == s

\* slicedRows.reverse()
Reverse(s) == [i \in 1..Len(s) |-> s[Len(s) + 1 - i]]

\* orderBy: [{ createdAt: "desc" }], take: n. Every sequence of the n first
\* rows of the set S in an order that is non-increasing in createdAt; rows
\* of one millisecond come in any order.
RECURSIVE findMany(_, _)
findMany(S, n) ==
  IF S = {} \/ n = 0 THEN {<<>>}
  ELSE UNION {{<<m>> \o t : t \in findMany(S \ {m}, n - 1)} :
                m \in {x \in S : \A y \in S : y.createdAt <= x.createdAt}}

\* GET's early returns without the private-room check.
GetRefusalNoPrivateCheck(sub, query, limited, storeFails) ==
  IF limited THEN 429
  ELSE IF sub = Null THEN 401
  ELSE IF ~messageHistoryQuerySchema(query) THEN 422
  ELSE IF storeFails THEN 500
  ELSE IF query.roomId # Absent /\ query.roomId \notin Rooms THEN 404
  ELSE 0

\* The status with which GET refuses a request before it reads messages,
\* 0 when it does not refuse: the rate limiter, the session cookie, the
\* query schema, the room lookup and the private-room check, in this order.
GetRefusal(sub, query, limited, storeFails) ==
  IF limited THEN 429
  ELSE IF sub = Null THEN 401
  ELSE IF ~messageHistoryQuerySchema(query) THEN 422
  ELSE IF storeFails THEN 500
  ELSE IF query.roomId # Absent /\ query.roomId \notin Rooms THEN 404
  ELSE IF /\ query.roomId # Absent
          /\ RoomTable[query.roomId].isPrivate
          /\ RoomTable[query.roomId].creatorId # sub
    THEN 403
  ELSE 0

\* The results prisma.message.findMany can hand to GET for a request (the
\* empty result stands in for a request that never reaches the query).
FindManyResults(cookieHeader, query, limited, storeFails, store) ==
  LET sub == getAuthPayloadFromRequest(cookieHeader)
  IN  IF GetRefusal(sub, query, limited, storeFails) # 0 THEN {<<>>}
      ELSE findMany(Matching(sub, query, store), ParsedLimit(query) + 1)

\* The body of a successful GET with nextBefore taken from slicedRows[0],
\* the newest kept row.
PageCursorAtNewest(op, req, sub, rows, limit) ==
  LET hasMore == Len(rows) > limit
      slicedRows == IF hasMore THEN Take(rows, limit) ELSE rows
      nextBefore == IF hasMore /\ slicedRows # <<>>
                      THEN toISOString(slicedRows[1].createdAt)
                      ELSE NoCursor
      reversed == Reverse(slicedRows)
  IN  Response(op, req, sub, 200,
               [i \in 1..Len(reversed) |-> mapMessage(reversed[i])],
               nextBefore)

\* The body of a successful GET: of the limit + 1 rows keep limit, point
\* nextBefore at the oldest kept row, answer oldest first.
Page(op, req, sub, rows, limit) ==
  LET hasMore == Len(rows) > limit
      slicedRows == IF hasMore THEN Take(rows, limit) ELSE rows
      nextBefore == IF hasMore /\ slicedRows # <<>>
                      THEN toISOString(slicedRows[Len(slicedRows)].createdAt)
                      ELSE NoCursor
      reversed == Reverse(slicedRows)
  IN  Response(op, req, sub, 200,
               [i \in 1..Len(reversed) |-> mapMessage(reversed[i])],
               nextBefore)

\* export async function GET(req): the response to a query, given whether
\* the rate limiter refuses the caller, whether the store fails, and the
\* rows the store returns.
GET(cookieHeader, query, limited, storeFails, rows) ==
  LET op == "GET"
      sub == getAuthPayloadFromRequest(cookieHeader)
      refusal == GetRefusal(sub, query, limited, storeFails)
  IN  IF refusal # 0
        THEN errorResponse(op, query, IF refusal \in {429, 401} THEN Null
                                      ELSE sub, refusal)
        ELSE Page(op, query, sub, rows, ParsedLimit(query))

\* A caller sends GET /api/messages.
GetMessages(cookieHeader, query, limited, storeFails) ==
  /\ \E rows \in FindManyResults(cookieHeader, query, limited, storeFails,
                                  messages) :
       resp' = GET(cookieHeader, query, limited, storeFails, rows)
  /\ UNCHANGED <<serverVars, clientVars, asyncVars, httpVars>>

\* typeof body.roomId === "string"
NotAString == "42"
isRoomMessage(body) == body.roomId \notin {Absent, NotAString}

\* export async function POST(req): the response and the row the handler
\* inserts (NoRow when it inserts none).
NoRow == CreateRow(<<>>, 0, Null, Null, Null, <<>>, Null)

Created(op, body, sub, row) ==
  [response |-> Response(op, body, sub, 201, <<mapMessage(row)>>, NoCursor),
   row |-> row]

Refused(op, body, sub, st) ==
  [response |-> errorResponse(op, body, sub, st), row |-> NoRow]

\* POST that copies a receiverId in the body into a room message
POSTKeepsBothTargets(cookieHeader, body, validJson, limited, storeFails, now, store) ==
  LET op == "POST"
      sub == getAuthPayloadFromRequest(cookieHeader)
  IN  IF limited THEN Refused(op, body, Null, 429)
      ELSE IF sub = Null THEN Refused(op, body, Null, 401)
      ELSE IF ~validJson THEN Refused(op, body, sub, 400)
      ELSE IF isRoomMessage(body)
        THEN IF ~sendRoomMessageSchema(body) THEN Refused(op, body, sub, 422)
             ELSE IF storeFails THEN Refused(op, body, sub, 500)
             ELSE IF body.roomId \notin Rooms
               THEN Refused(op, body, sub, 404)
             ELSE IF /\ RoomTable[body.roomId].isPrivate
                     /\ RoomTable[body.roomId].creatorId # sub
               THEN Refused(op, body, sub, 403)
             ELSE Created(op, body, sub,
                          CreateRow(store, now, sub, body.roomId,
                                    IF body.receiverId = Absent THEN Null
                                    ELSE body.receiverId,
                                    StoredContent(body), StoredFileUrl(body)))
      ELSE IF ~privateMessageSchema(body) THEN Refused(op, body, sub, 422)
      ELSE IF storeFails THEN Refused(op, body, sub, 500)
      ELSE IF body.receiverId \notin Users THEN Refused(op, body, sub, 404)
      ELSE Created(op, body, sub,
                   CreateRow(store, now, sub, Null, body.receiverId,
                             StoredContent(body), StoredFileUrl(body)))

POST(cookieHeader, body, validJson, limited, storeFails, now, store) ==
  LET op == "POST"
      sub == getAuthPayloadFromRequest(cookieHeader)
  IN  IF limited THEN Refused(op, body, Null, 429)
      ELSE IF sub = Null THEN Refused(op, body, Null, 401)
      ELSE IF ~validJson THEN Refused(op, body, sub, 400)
      ELSE IF isRoomMessage(body)
        THEN IF ~sendRoomMessageSchema(body) THEN Refused(op, body, sub, 422)
             ELSE IF storeFails THEN Refused(op, body, sub, 500)
             ELSE IF body.roomId \notin Rooms
               THEN Refused(op, body, sub, 404)
             ELSE IF /\ RoomTable[body.roomId].isPrivate
                     /\ RoomTable[body.roomId].creatorId # sub
               THEN Refused(op, body, sub, 403)
             ELSE Created(op, body, sub,
                          CreateRow(store, now, sub, body.roomId, Null,
                                    StoredContent(body), StoredFileUrl(body)))
      ELSE IF ~privateMessageSchema(body) THEN Refused(op, body, sub, 422)
      ELSE IF storeFails THEN Refused(op, body, sub, 500)
      ELSE IF body.receiverId \notin Users THEN Refused(op, body, sub, 404)
      ELSE Created(op, body, sub,
                   CreateRow(store, now, sub, Null, body.receiverId,
                             StoredContent(body), StoredFileUrl(body)))

\* A caller sends POST /api/messages.
PostMessage(cookieHeader, body, validJson, limited, storeFails, now) ==
  LET result == POST(cookieHeader, body, validJson, limited, storeFails,
                     now, messages)
  IN  /\ result.row # NoRow => Len(messages) < MaxStored
      /\ resp' = result.response
      /\ messages' = IF result.row # NoRow
                       THEN Append(messages, result.row) ELSE messages
      /\ UNCHANGED <<status, onlineUsers, rooms, inflight, out, clientVars, asyncVars, httpVars>>

\* ------------------------------------------------ chat client: history
\* The browser session of the chat client.
ClientUser == "u1"
ClientCookie == <<[name |-> AUTH_COOKIE_NAME, value |-> TokenOf(ClientUser)]>>

\* params.set("roomId" | "receiverId" | "limit" | "before", ...)
ConversationQuery(active, before, limit) ==
  Request(IF active.kind = "room" THEN active.id ELSE Absent,
          IF active.kind = "dm" THEN active.id ELSE Absent,
          NoContent, Absent, before, Limit(limit))

\* payload.messages.filter((incoming) => !current.some(same id))
DedupedOlder(incoming, current) ==
  SelectSeq(incoming,
            LAMBDA m : \A k \in 1..Len(current) : current[k].id # m.id)

\* setMessages((current) => [...dedupedOlder, ...current])
Merge(incoming, current) == DedupedOlder(incoming, current) \o current

\* loadMessages(loadMore) with activeRoomIdRef / activeDmUserIdRef = active,
\* the request and the handling of its response in one step. The client asks
\* for pages of 20; limit stands for that page size.
loadMessages(active, loadMore, limit, limited) ==
  IF active = NoConversation
    THEN /\ cMessages' = <<>>
         /\ cNextBefore' = NoCursor
         /\ hLoaded' = FALSE
         /\ hBase' = 0
         /\ UNCHANGED resp
    ELSE /\ ~(loadMore /\ cNextBefore = NoCursor)
         /\ LET query == ConversationQuery(active,
                           IF loadMore THEN cNextBefore ELSE NoBefore, limit)
            IN  \E rows \in FindManyResults(ClientCookie, query, limited,
                                             FALSE, messages) :
                  LET response == GET(ClientCookie, query, limited, FALSE,
                                      rows)
                  IN  /\ resp' = response
                      /\ IF response.status # 200
                           THEN /\ UNCHANGED <<cMessages, cNextBefore>>
                                /\ hLoaded' = (loadMore /\ hLoaded)
                                /\ hBase' = IF loadMore /\ hLoaded
                                              THEN hBase ELSE 0
                           ELSE /\ cMessages' =
                                     IF loadMore
                                       THEN Merge(response.messages, cMessages)
                                       ELSE response.messages
                                /\ cNextBefore' = response.nextBefore
                                /\ hLoaded' = (loadMore => hLoaded)
                                /\ hBase' = IF ~loadMore THEN Len(messages)
                                            ELSE IF hLoaded THEN hBase ELSE 0

\* The conversation-change effect: conv becomes (or is again) the active
\* conversation and its newest page is loaded.
LoadMessages(conv, limit, limited) ==
  /\ cActive' = conv
  /\ loadMessages(conv, FALSE, limit, limited)
  /\ UNCHANGED <<serverVars, httpVars, asyncVars>>

\* The reader scrolls to the top: the next older page is loaded.
LoadMore(limit, limited) ==
  /\ cActive # NoConversation
  /\ loadMessages(cActive, TRUE, limit, limited)
  /\ UNCHANGED <<serverVars, cActive, httpVars, asyncVars>>

\* ----------------------------------------------------------- rate limiter
\* What the limiter reads of a request: the x-forwarded-for list (<<>> when
\* the header is missing or empty) and x-real-ip (Absent when missing).
Headers(xForwardedFor, xRealIp) ==
  [xForwardedFor |-> xForwardedFor, xRealIp |-> xRealIp]

resolveClientIp(req) ==
  IF req.xForwardedFor # <<>> THEN Head(req.xForwardedFor)
  ELSE IF req.xRealIp # Absent THEN req.xRealIp
  ELSE "unknown"

\* The options each route passes; max and windowMs are scaled down.
RateOptions(scope) ==
  [max |-> IF scope = "auth:register" THEN RegisterMax ELSE ListMax,
   windowMs |-> WindowMs]

\* cleanupExpiredEntries(now)
cleanupExpiredEntries(m, now) ==
  [k \in {x \in DOMAIN m : m[x].resetAt > now} |-> m[k]]

\* evaluateRateLimit that admits count < max
evaluateRateLimitBelowMax(m, key, options, now) ==
  LET cleaned == cleanupExpiredEntries(m, now)
  IN  IF key \notin DOMAIN cleaned
        THEN [store |-> (key :> [count |-> 1,
                                 resetAt |-> now + options.windowMs])
                          @@ cleaned,
              ok |-> TRUE, resetAt |-> now + options.windowMs]
        ELSE LET count == cleaned[key].count + 1
             IN  [store |-> [cleaned EXCEPT ![key].count = count],
                  ok |-> count < options.max,
                  resetAt |-> cleaned[key].resetAt]

\* evaluateRateLimit that starts a new window on every call
evaluateRateLimitRestartsWindow(m, key, options, now) ==
  LET cleaned == cleanupExpiredEntries(m, now)
  IN  IF key \notin DOMAIN cleaned
        THEN [store |-> (key :> [count |-> 1,
                                 resetAt |-> now + options.windowMs])
                          @@ cleaned,
              ok |-> TRUE, resetAt |-> now + options.windowMs]
        ELSE LET count == cleaned[key].count + 1
             IN  [store |-> [cleaned EXCEPT
                               ![key] = [count |-> count,
                                         resetAt |-> now + options.windowMs]],
                  ok |-> count <= options.max,
                  resetAt |-> now + options.windowMs]

\* evaluateRateLimit(key, options) at Date.now() = now: the store it leaves
\* and the decision it returns.
evaluateRateLimit(m, key, options, now) ==
  LET cleaned == cleanupExpiredEntries(m, now)
  IN  IF key \notin DOMAIN cleaned
        THEN [store |-> (key :> [count |-> 1,
                                 resetAt |-> now + options.windowMs])
                          @@ cleaned,
              ok |-> TRUE, resetAt |-> now + options.windowMs]
        ELSE LET count == cleaned[key].count + 1
             IN  [store |-> [cleaned EXCEPT ![key].count = count],
                  ok |-> count <= options.max,
                  resetAt |-> cleaned[key].resetAt]

\* Math.ceil(a / b)
Ceil(a, b) == 0 - ((0 - a) \div b)

\* Math.max(1, Math.ceil((decision.resetAt - Date.now()) / 1000))
retryAfterSeconds(resetAt, now) ==
  LET seconds == Ceil(resetAt - now, 1000)
  IN  IF seconds < 1 THEN 1 ELSE seconds

\* enforceRateLimit(req, scope, options): a route asks the limiter. A
\* rejection reads the clock a second time, at `later`.
EnforceRateLimit(req, scope, later) ==
  LET key == <<scope, resolveClientIp(req)>>
      result == evaluateRateLimit(rateStore, key, RateOptions(scope), dateNow)
  IN  /\ key \in DOMAIN rateStore => rateStore[key].count < MaxCount
      /\ later >= dateNow /\ later <= MaxTime
      /\ rateStore' = result.store
      /\ IF result.ok
           THEN /\ decision' = [key |-> key, ok |-> TRUE, retryAfter |-> 0,
                                resetAt |-> result.resetAt]
                /\ dateNow' = dateNow
           ELSE /\ decision' = [key |-> key, ok |-> FALSE,
                                retryAfter |->
                                  retryAfterSeconds(result.resetAt, later),
                                resetAt |-> result.resetAt]
                /\ dateNow' = later
      /\ UNCHANGED <<serverVars, resp, clientVars, asyncVars, uploads>>

\* Time passes.
Tick ==
  /\ dateNow + TickMs <= MaxTime
  /\ dateNow' = dateNow + TickMs
  /\ UNCHANGED <<serverVars, resp, clientVars, asyncVars, rateStore, decision, uploads>>

\* ------------------------------------------------------------------ inputs
Payload(roomId, receiverId, content, fileUrl) ==
  [roomId |-> roomId, receiverId |-> receiverId, content |-> content,
   fileUrl |-> fileUrl]

\* Payloads of the routing specification: an accepted text and a text the
\* schema rejects, sent to an existing target, to a well-formed id that
\* names nothing, and to an id that is no uuid.
RoomPayloads ==
  {Payload("r1", Absent, Text(<<"a">>), Absent),
   Payload("x9", Absent, Text(<<"a">>), Absent),
   Payload("r1", Absent, Text(<<"sp">>), Absent),
   Payload("bad", Absent, Text(<<"a">>), Absent)}

PrivatePayloads ==
  {Payload(Absent, u, Text(<<"a">>), Absent) : u \in Users \cup {"x9"}}
  \cup {Payload(Absent, "u1", Text(<<"sp">>), Absent),
        Payload(Absent, "bad", Text(<<"a">>), Absent)}

\* ----------------------------------------- presence specification (Spec)
\* Clients open and close sockets, presenting every kind of credential, and
\* join and leave rooms.
ConnectAny == \E c \in Conns : \E a \in AuthFields(ConnUser(c)) :
                \E h \in CookieHeaders(ConnUser(c)) : Connect(c, a, h)
DisconnectAny == \E c \in Conns : Disconnect(c)
JoinRoomAny == \E c \in Conns, r \in JoinIds : JoinRoom(c, r)
LeaveRoomAny == \E c \in Conns, r \in JoinIds : LeaveRoom(c, r)

Next ==
  \/ ConnectAny
  \/ DisconnectAny
  \/ JoinRoomAny
  \/ LeaveRoomAny

Spec == Init /\ [][Next]_vars

\* ------------------------------------------ routing specification (SpecSend)
\* Authenticated clients connect, join, leave and disconnect while room and
\* direct messages are in flight.
SendConnect == \E c \in Conns : Connect(c, TokenOf(ConnUser(c)), NoHeader)
SendJoinRoom == \E c \in Conns : JoinRoom(c, "r1")
SendLeaveRoom == \E c \in Conns : LeaveRoom(c, "r1")
SendMessageAny ==
  \E c \in Conns, p \in RoomPayloads, a \in BOOLEAN : SendMessage(c, p, a)
PrivateMessageAny ==
  \E c \in Conns, p \in PrivatePayloads, a \in BOOLEAN : PrivateMessage(c, p, a)
RoomFoundAny == \E i \in Slots, f \in BOOLEAN : RoomFound(i, f)
RecipientFoundAny == \E i \in Slots, f \in BOOLEAN : RecipientFound(i, f)
RoomMessageCreatedAny ==
  \E i \in Slots, f \in BOOLEAN, now \in Nows(messages) :
    RoomMessageCreated(i, f, now)
PrivateMessageCreatedAny ==
  \E i \in Slots, f \in BOOLEAN, now \in Nows(messages) :
    PrivateMessageCreated(i, f, now)

NextSend ==
  \/ SendConnect
  \/ DisconnectAny
  \/ SendJoinRoom
  \/ SendLeaveRoom
  \/ SendMessageAny
  \/ PrivateMessageAny
  \/ RoomFoundAny
  \/ RecipientFoundAny
  \/ RoomMessageCreatedAny
  \/ PrivateMessageCreatedAny

SpecSend == Init /\ [][NextSend]_vars

\* --------------------------------------- content specification (SpecContent)
\* One client sends room and direct messages of every content up to MaxLen
\* characters, with and without a file reference, one request at a time.
RECURSIVE StringsOver(_, _)
StringsOver(alphabet, n) ==
  IF n = 0 THEN {<<>>}
  ELSE LET shorter == StringsOver(alphabet, n - 1)
       IN  shorter \cup {Append(s, ch) : s \in shorter, ch \in alphabet}

\* An ordinary character, a blank, a control character and a bracket.
ContentChars == {"a", "sp", "c0", "lt"}

ContentInputs ==
  {NoContent} \cup {Text(s) : s \in StringsOver(ContentChars, MaxLen)}

FileInputs == {Absent, "/uploads/f1", "http://evil/x"}

ContentRoomPayloads ==
  {Payload("r1", Absent, ct, f) : ct \in ContentInputs, f \in FileInputs}

ContentPrivatePayloads ==
  {Payload(Absent, "u2", ct, f) : ct \in ContentInputs, f \in FileInputs}

Idle == \A i \in Slots : inflight[i].pc = "none"

ContentConnect == Connect(1, TokenOf(ConnUser(1)), NoHeader)
ContentSendMessage ==
  Idle /\ \E p \in ContentRoomPayloads : SendMessage(1, p, TRUE)
ContentPrivateMessage ==
  Idle /\ \E p \in ContentPrivatePayloads : PrivateMessage(1, p, TRUE)

NextContent ==
  \/ ContentConnect
  \/ ContentSendMessage
  \/ ContentPrivateMessage
  \/ RoomFoundAny
  \/ RecipientFoundAny
  \/ RoomMessageCreatedAny
  \/ PrivateMessageCreatedAny

SpecContent == Init /\ [][NextContent]_vars

\* ------------------------------------ history specification (SpecHistory)
\* The client's user posts through the REST route to a room and to a direct
\* conversation, with bodies that name a room, a user, both and neither;
\* the client pages through both conversations; other callers query the
\* route with well-formed and ill-formed parameters.
HistoryBody(roomId, receiverId) ==
  Request(roomId, receiverId, Text(<<"a">>), Absent, NoBefore, NoLimit)

HistoryBodies ==
  {HistoryBody("r1", Absent), HistoryBody(Absent, "u2"),
   HistoryBody("r1", "u2"), HistoryBody(Absent, Absent)}

HistoryQuery(roomId, receiverId) ==
  Request(roomId, receiverId, NoContent, Absent, NoBefore, NoLimit)

\* Who asks what: the client's user with both keys and with neither, and
\* another user for the private room of the client's user.
HistoryCalls ==
  {<<ClientCookie, HistoryQuery("r1", "u2")>>,
   <<ClientCookie, HistoryQuery(Absent, Absent)>>,
   <<<<[name |-> AUTH_COOKIE_NAME, value |-> TokenOf("u2")]>>,
     HistoryQuery("r2", Absent)>>}

HistoryConversations == {RoomConversation("r1"), DmConversation("u2")}

HistoryPost ==
  \E body \in HistoryBodies, now \in Nows(messages) :
    PostMessage(ClientCookie, body, TRUE, FALSE, FALSE, now)
HistoryGet ==
  \E call \in HistoryCalls : GetMessages(call[1], call[2], FALSE, FALSE)
HistoryLoadMessages ==
  \E conv \in HistoryConversations, limit \in 1..MaxPage,
     limited \in BOOLEAN :
    LoadMessages(conv, limit, limited)
HistoryLoadMore ==
  \E limit \in 1..MaxPage, limited \in BOOLEAN : LoadMore(limit, limited)

NextHistory ==
  \/ HistoryPost
  \/ HistoryGet
  \/ HistoryLoadMessages
  \/ HistoryLoadMore

SpecHistory == Init /\ [][NextHistory]_vars

\* -------------------------------------- access specification (SpecAccess)
\* Three users and an anonymous caller post to and read the public room, the
\* private room, a room that does not exist and direct conversations; each
\* row is stamped a millisecond after the newest one.
CookieOf(u) == <<[name |-> AUTH_COOKIE_NAME, value |-> TokenOf(u)]>>

AccessCookies == {CookieOf(u) : u \in Users} \cup {NoHeader}

AccessBodies ==
  {HistoryBody("r1", Absent), HistoryBody("r2", Absent),
   HistoryBody(Absent, "u2")}

AccessQueries ==
  {HistoryQuery("r1", Absent), HistoryQuery("r2", Absent),
   HistoryQuery("x9", Absent), HistoryQuery(Absent, "u1")}

AccessPost ==
  \E cookie \in {CookieOf("u1"), CookieOf("u2")}, body \in AccessBodies :
    PostMessage(cookie, body, TRUE, FALSE, FALSE, Now(messages))
AccessGet ==
  \E cookie \in AccessCookies, query \in AccessQueries, limited \in BOOLEAN :
    GetMessages(cookie, query, limited, FALSE)

NextAccess ==
  \/ AccessPost
  \/ AccessGet

SpecAccess == Init /\ [][NextAccess]_vars

\* ------------------------------------------ limiter specification (SpecRate)
\* A client behind a proxy registers and a client that connects directly
\* lists messages, while time passes.
RateCalls ==
  {<<Headers(<<"ip1", "ip9">>, "ip2"), "auth:register">>,
   <<Headers(<<>>, "ip2"), "messages:list">>}

RateEnforce ==
  \E call \in RateCalls, later \in {dateNow, dateNow + TickMs} :
    EnforceRateLimit(call[1], call[2], later)

NextRate ==
  \/ RateEnforce
  \/ Tick

SpecRate == Init /\ [][NextRate]_vars

\* ------------------------------------------ closing specification (SpecClose)
\* Authenticated clients connect, join the public room, type, send accepted
\* room and direct messages, and disconnect while their requests are waiting
\* on the store.
ClosePayloads == {Payload("r1", Absent, Text(<<"a">>), Absent)}
ClosePrivatePayloads == {Payload(Absent, "u2", Text(<<"a">>), Absent)}

CloseTypingPayloads ==
  {TypingPayload("r1", Absent, TRUE, Absent),
   TypingPayload(Absent, "u2", TRUE, Absent)}

CloseSendMessage ==
  \E c \in Conns, p \in ClosePayloads : SendMessage(c, p, TRUE)
ClosePrivateMessage ==
  \E c \in Conns, p \in ClosePrivatePayloads : PrivateMessage(c, p, TRUE)
CloseTyping == \E c \in Conns, p \in CloseTypingPayloads : Typing(c, p)

NextClose ==
  \/ SendConnect
  \/ DisconnectAny
  \/ SendJoinRoom
  \/ CloseSendMessage
  \/ ClosePrivateMessage
  \/ CloseTyping
  \/ RoomFoundAny
  \/ RecipientFoundAny
  \/ RoomMessageCreatedAny
  \/ PrivateMessageCreatedAny

SpecClose == Init /\ [][NextClose]_vars

\* ------------------------------------------------- both creation paths
\* Two sockets (u1 and u2) and a REST caller create messages; every input
\* also comes in a forged variant that names another user as its author and
\* names both targets.
WriteConns == {1, 3}
Forger == "u3"

\* A payload with a senderId key, which no schema declares.
WithSenderId(p, u) ==
  [k \in DOMAIN p \cup {"senderId"} |-> IF k = "senderId" THEN u ELSE p[k]]

WriteRoomPayloads ==
  {Payload("r1", Absent, Text(<<"a">>), Absent),
   WithSenderId(Payload("r1", "u2", Text(<<"a">>), Absent), Forger)}
WritePrivatePayloads ==
  {Payload(Absent, "u2", Text(<<"a">>), Absent),
   WithSenderId(Payload("r1", "u2", Text(<<"a">>), Absent), Forger)}
WriteBodies ==
  {HistoryBody("r1", Absent), HistoryBody(Absent, "u2"),
   WithSenderId(HistoryBody("r1", "u2"), Forger)}
WriteTypingPayloads ==
  {TypingPayload(Absent, "u2", TRUE, Absent),
   TypingPayload(Absent, "u1", TRUE, Forger)}

WriteConnect ==
  \E c \in WriteConns : Connect(c, TokenOf(ConnUser(c)), NoHeader)
WriteSendMessage ==
  \E c \in WriteConns, p \in WriteRoomPayloads : SendMessage(c, p, TRUE)
WritePrivateMessage ==
  \E c \in WriteConns, p \in WritePrivatePayloads : PrivateMessage(c, p, TRUE)
WriteTyping == \E c \in WriteConns, p \in WriteTypingPayloads : Typing(c, p)
WriteRoomFound == \E i \in Slots : RoomFound(i, FALSE)
WriteRecipientFound == \E i \in Slots : RecipientFound(i, FALSE)
WriteRoomMessageCreated ==
  \E i \in Slots : RoomMessageCreated(i, FALSE, Now(messages))
WritePrivateMessageCreated ==
  \E i \in Slots : PrivateMessageCreated(i, FALSE, Now(messages))
WritePost ==
  \E body \in WriteBodies :
    PostMessage(CookieOf("u1"), body, TRUE, FALSE, FALSE, Now(messages))

NextWrite ==
  \/ WriteConnect
  \/ WriteSendMessage
  \/ WritePrivateMessage
  \/ WriteTyping
  \/ WriteRoomFound
  \/ WriteRecipientFound
  \/ WriteRoomMessageCreated
  \/ WritePrivateMessageCreated
  \/ WritePost

SpecWrite == Init /\ [][NextWrite]_vars

\* ------------------------------------------------------- list requests
\* Two users post into a room and into their direct conversation; the first
\* user lists either conversation with every kind of limit and cursor.
ListLimits == {NoLimit, Limit(MinLimit - 1), Limit(1), Limit(2),
               Limit(MaxLimit + 1)}
ListBefores == {NoBefore, toISOString(2)}

ListQueries ==
  {Request(t[1], t[2], NoContent, Absent, before, limit) :
     t \in {<<"r1", Absent>>, <<Absent, "u2">>},
     before \in ListBefores, limit \in ListLimits}

ListPosts ==
  {<<CookieOf("u1"), HistoryBody("r1", Absent)>>,
   <<CookieOf("u1"), HistoryBody(Absent, "u2")>>,
   <<CookieOf("u2"), HistoryBody(Absent, "u1")>>}

ListPost ==
  \E post \in ListPosts, now \in Nows(messages) :
    PostMessage(post[1], post[2], TRUE, FALSE, FALSE, now)
ListGet ==
  \E query \in ListQueries : GetMessages(CookieOf("u1"), query, FALSE, FALSE)

NextList ==
  \/ ListPost
  \/ ListGet

SpecList == Init /\ [][NextList]_vars

\* ------------------------------------------------------------- /api/upload
\* A multipart body's "file" entry: whether it is a File, whether its
\* extension or MIME type is on the allow list, whether it exceeds
\* MAX_UPLOAD_SIZE_BYTES.
UploadFile(isFile, allowed, tooBig) ==
  [isFile |-> isFile, allowed |-> allowed, tooBig |-> tooBig]

\* `/uploads/${Date.now()}-${crypto.randomUUID()}.${extension}`: the paths
\* the route hands out.
UploadUrls == {"/uploads/f1"}

\* The response of the upload route; the url of a 201 body travels in the
\* fileUrl field.
UploadResponse(sub, st, url) ==
  Response("UPLOAD", Request(Absent, Absent, NoContent, url, NoBefore, NoLimit),
           sub, st, <<>>, NoCursor)

\* export async function POST(req) of the upload route.
Upload(cookieHeader, file, limited, url) ==
  LET sub == getAuthPayloadFromRequest(cookieHeader)
      st == IF limited THEN 429
            ELSE IF sub = Null THEN 401
            ELSE IF ~file.isFile THEN 400
            ELSE IF ~file.allowed THEN 415
            ELSE IF file.tooBig THEN 413
            ELSE 201
  IN  /\ resp' = UploadResponse(IF st \in {429, 401} THEN Null ELSE sub, st,
                                IF st = 201 THEN url ELSE Absent)
      /\ uploads' = IF st = 201 THEN uploads \cup {url} ELSE uploads
      /\ UNCHANGED <<serverVars, clientVars, asyncVars, rateStore, dateNow, decision>>

\* A user uploads files and sends messages with and without a fileUrl, over
\* the socket and over REST.
UploadFiles ==
  {UploadFile(FALSE, FALSE, FALSE), UploadFile(TRUE, FALSE, FALSE),
   UploadFile(TRUE, TRUE, TRUE), UploadFile(TRUE, TRUE, FALSE)}

AttachmentPayloads ==
  {Payload("r1", Absent, NoContent, f) : f \in FileUrls}
  \cup {Payload("r1", Absent, Text(<<"a">>), Absent)}

AttachmentBodies ==
  {Request(Absent, "u2", NoContent, f, NoBefore, NoLimit) : f \in FileUrls}

UploadConnect == Connect(1, TokenOf(ConnUser(1)), NoHeader)
UploadAny ==
  \E cookie \in {CookieOf("u1"), NoHeader}, file \in UploadFiles,
     limited \in BOOLEAN, url \in UploadUrls :
    Upload(cookie, file, limited, url)
UploadSendMessage ==
  \E p \in AttachmentPayloads, a \in BOOLEAN : SendMessage(1, p, a)
UploadRoomFound == \E i \in Slots : RoomFound(i, FALSE)
UploadRoomMessageCreated ==
  \E i \in Slots : RoomMessageCreated(i, FALSE, Now(messages))
UploadPost ==
  \E body \in AttachmentBodies :
    PostMessage(CookieOf("u1"), body, TRUE, FALSE, FALSE, Now(messages))

NextUpload ==
  \/ UploadConnect
  \/ UploadAny
  \/ UploadSendMessage
  \/ UploadRoomFound
  \/ UploadRoomMessageCreated
  \/ UploadPost

SpecUpload == Init /\ [][NextUpload]_vars

\* ------------------------------------------------------ mailbox groups
\* Authenticated clients connect and disconnect, and join and leave a room
\* and a group whose id spells another user's mailbox.
MailboxIds == {"r1", MailboxLikeId}

MailboxJoinRoom == \E c \in Conns, r \in MailboxIds : JoinRoom(c, r)
MailboxLeaveRoom == \E c \in Conns, r \in MailboxIds : LeaveRoom(c, r)

NextMailbox ==
  \/ SendConnect
  \/ DisconnectAny
  \/ MailboxJoinRoom
  \/ MailboxLeaveRoom

SpecMailbox == Init /\ [][NextMailbox]_vars

\* ---------------------------------------------------------- sanitizer
\* One client sends room messages whose content is any string of up to
\* MaxLen characters of every class.
SanitizePayloads ==
  {Payload("r1", Absent, Text(s), Absent) : s \in StringsOver(Chars, MaxLen)}

SanitizeSendMessage ==
  Idle /\ \E p \in SanitizePayloads : SendMessage(1, p, TRUE)
SanitizeRoomFound == \E i \in Slots : RoomFound(i, FALSE)
SanitizeRoomMessageCreated ==
  \E i \in Slots : RoomMessageCreated(i, FALSE, Now(messages))

NextSanitize ==
  \/ ContentConnect
  \/ SanitizeSendMessage
  \/ SanitizeRoomFound
  \/ SanitizeRoomMessageCreated

SpecSanitize == Init /\ [][NextSanitize]_vars

\* ------------------------------------------- store answers and resumptions
\* createRoomMessage awaits prisma.message.create; the handler's code after
\* the await (the broadcast and the acknowledgment) runs when the promise of
\* that call resolves. RoomMessageCreated is the two steps below with nothing
\* between them; here the store's insert and the handler's resumption are
\* apart, so that handlers of several requests can resume in any order.
MaxOrdered == 2

Resumable(req, row) == [conn |-> req.conn, hasAck |-> req.hasAck, row |-> row]

\* prisma.message.create inserts the row of a room message.
RoomMessageStored(i, now) ==
  /\ inflight[i].pc = "create"
  /\ inflight[i].kind = "room"
  /\ Len(messages) < MaxOrdered
  /\ LET req == inflight[i]
         row == CreateRow(messages, now, ConnUser(req.conn),
                          req.data.target, Null,
                          StoredContent(req.data), StoredFileUrl(req.data))
     IN  /\ messages' = Append(messages, row)
         /\ resumable' = resumable \cup {Resumable(req, row)}
  /\ inflight' = [inflight EXCEPT ![i] = NoRequest]
  /\ out' = <<>>
  /\ UNCHANGED <<status, onlineUsers, rooms, resp, clientVars, httpVars,
                 cPending, cJoined>>

\* The send_message handler resumes with the created message.
RoomMessageResumed(r) ==
  /\ r \in resumable
  /\ resumable' = resumable \ {r}
  /\ LET message == mapMessage(r.row)
     IN  out' = IF message.roomId = Null
                  THEN AckIf(r.hasAck, r.conn, FALSE, NoMessage,
                             "Invalid room message.")
                  ELSE RoomBroadcast(message, rooms)
                       \o AckIf(r.hasAck, r.conn, TRUE, message, "")
  /\ UNCHANGED <<status, onlineUsers, rooms, inflight, messages, resp,
                 clientVars, httpVars, cPending, cJoined>>

\* Three sockets connect and join a room; the sockets of two users send to
\* it while the earlier send has not resumed yet.
OrderSendMessage ==
  \E c \in WriteConns, hasAck \in BOOLEAN :
    SendMessage(c, Payload("r1", Absent, Text(<<"a">>), Absent), hasAck)
OrderRoomFound == \E i \in Slots : RoomFound(i, FALSE)
OrderRoomMessageStored ==
  \E i \in Slots : RoomMessageStored(i, Now(messages))
OrderRoomMessageResumed == \E r \in resumable : RoomMessageResumed(r)

NextOrder ==
  \/ SendConnect
  \/ SendJoinRoom
  \/ OrderSendMessage
  \/ OrderRoomFound
  \/ OrderRoomMessageStored
  \/ OrderRoomMessageResumed

SpecOrder == Init /\ [][NextOrder]_vars

\* ------------------------------------------------- chat client, unfolded
\* The chat client with its requests and their answers as separate steps: a
\* history request or a send is issued in one step and its response or
\* acknowledgment handled in a later one, with anything in between.
MaxPending == 2
MaxClientRows == 2
ClientLimit == 2
TempId == 0 - 1

\* isMessageForActiveConversation(message)
isMessageForActiveConversation(message, active) ==
  IF active.kind = "room" THEN message.roomId = active.id
  ELSE IF active.kind = "dm"
    THEN \/ message.senderId = active.id /\ message.receiverId = ClientUser
         \/ message.senderId = ClientUser /\ message.receiverId = active.id
  ELSE FALSE

PendingLoad(conv) == [kind |-> "load", conv |-> conv]
PendingAck(conv) == [kind |-> "ack", conv |-> conv]

\* onClick of a room or a user: setActiveRoomId / setActiveDmUserId, then the
\* conversation-change effect calls loadMessages(false) up to its fetch.
SelectConversation(conv) ==
  /\ conv # cActive
  /\ Cardinality(cPending) < MaxPending
  /\ cActive' = conv
  /\ cPending' = cPending \cup {PendingLoad(conv)}
  /\ UNCHANGED <<serverVars, resp, cMessages, cNextBefore, hLoaded, hBase,
                 httpVars, resumable, cJoined>>

\* loadMessages(false) resumes after await fetch(...): the server answers
\* the request for the conversation that was active when it was issued.
LoadResponse(p, limit) ==
  /\ p \in cPending
  /\ p.kind = "load"
  /\ LET query == ConversationQuery(p.conv, NoBefore, limit)
     IN  \E rows \in FindManyResults(ClientCookie, query, FALSE, FALSE,
                                      messages) :
           LET response == GET(ClientCookie, query, FALSE, FALSE, rows)
           IN  /\ resp' = response
               /\ IF response.status # 200
                    THEN UNCHANGED <<cMessages, cNextBefore>>
                    ELSE /\ cMessages' = response.messages
                         /\ cNextBefore' = response.nextBefore
  /\ cPending' = cPending \ {p}
  /\ UNCHANGED <<serverVars, cActive, hLoaded, hBase, httpVars, resumable,
                 cJoined>>

\* handleNewMessage(message): a new_message event reaches the client.
HandleNewMessage(message) ==
  /\ cMessages' =
       IF /\ isMessageForActiveConversation(message, cActive)
          /\ \A k \in 1 .. Len(cMessages) : cMessages[k].id # message.id
         THEN Append(cMessages, message)
         ELSE cMessages
  /\ UNCHANGED <<serverVars, resp, cActive, cNextBefore, hLoaded, hBase,
                 httpVars, asyncVars>>

\* sendMessage() up to socket.emit: the optimistic message is shown.
OptimisticMessage(active, content) ==
  [id |-> TempId, content |-> content, fileUrl |-> Null,
   senderId |-> ClientUser, senderName |-> UserName(ClientUser),
   roomId |-> IF active.kind = "room" THEN active.id ELSE Null,
   receiverId |-> IF active.kind = "dm" THEN active.id ELSE Null,
   createdAt |-> toISOString(0)]

ClientSendMessage(content) ==
  /\ cActive # NoConversation
  /\ \A p \in cPending : p.kind # "ack"
  /\ Cardinality(cPending) < MaxPending
  /\ cMessages' = Append(cMessages, OptimisticMessage(cActive, content))
  /\ cPending' = cPending \cup {PendingAck(cActive)}
  /\ UNCHANGED <<serverVars, resp, cActive, cNextBefore, hLoaded, hBase,
                 httpVars, resumable, cJoined>>

\* resolveAck(ack) with ack.ok: the server has created the row of the send
\* and the client replaces the optimistic message by it.
ResolveAck(p, now) ==
  /\ p \in cPending
  /\ p.kind = "ack"
  /\ LET row == CreateRow(messages, now, ClientUser,
                          IF p.conv.kind = "room" THEN p.conv.id ELSE Null,
                          IF p.conv.kind = "dm" THEN p.conv.id ELSE Null,
                          <<"a">>, Null)
         withoutTemp == SelectSeq(cMessages, LAMBDA m : m.id # TempId)
     IN  /\ messages' = Append(messages, row)
         /\ cMessages' =
              IF \E k \in 1 .. Len(withoutTemp) : withoutTemp[k].id = row.id
                THEN withoutTemp
                ELSE Append(withoutTemp, mapMessage(row))
  /\ cPending' = cPending \ {p}
  /\ UNCHANGED <<status, onlineUsers, rooms, inflight, out, resp, cActive,
                 cNextBefore, hLoaded, hBase, httpVars, resumable, cJoined>>

\* The client's user reads and writes a room and a direct conversation while
\* the other user posts into both.
ClientConversations == {RoomConversation("r1"), DmConversation("u2")}

ClientSelect == \E conv \in ClientConversations : SelectConversation(conv)
ClientLoadResponse == \E p \in cPending : LoadResponse(p, ClientLimit)
ClientNewMessage ==
  \E k \in 1 .. Len(messages) : HandleNewMessage(mapMessage(messages[k]))
ClientSend == ClientSendMessage(<<"a">>)
ClientResolveAck ==
  /\ Len(messages) < MaxClientRows
  /\ \E p \in cPending : ResolveAck(p, Now(messages))
ClientPeerPost ==
  /\ Len(messages) < MaxClientRows
  /\ \E body \in {HistoryBody("r1", Absent), HistoryBody(Absent, "u1")} :
       PostMessage(CookieOf("u2"), body, TRUE, FALSE, FALSE, Now(messages))

NextClient ==
  \/ ClientSelect
  \/ ClientLoadResponse
  \/ ClientNewMessage
  \/ ClientSend
  \/ ClientResolveAck
  \/ ClientPeerPost

SpecClient == Init /\ [][NextClient]_vars

\* ---------------------------------------------- chat client: room effect
\* The client's socket is socket ClientConn of the server. getSocketClient()
\* connects with the session cookie (withCredentials) and reconnects by
\* itself after a drop; each connection is a new socket on the server, with
\* no room joined.
ClientConn == 1

\* socket.connect() reaches the server.
ClientConnect == Connect(ClientConn, NoToken, ClientCookie)

\* The transport drops.
ClientDisconnect == Disconnect(ClientConn)

\* A switch of the active conversation as the room effect sees it
\* (useEffect on [activeRoomId]): the cleanup of the previous run emits
\* leave_room when that run had joined, then the body emits join_room only
\* if the socket is connected and a room is active. The server handles the
\* events at once; a leave_room emitted while disconnected changes nothing.
RoomEffect(conv) ==
  LET connected == status[ClientConn] = "open"
      left == IF cJoined # Null /\ connected
                THEN [rooms EXCEPT ![<<"room", cJoined>>] = @ \ {ClientConn}]
                ELSE rooms
      joins == connected /\ conv.kind = "room"
  IN  /\ conv # cActive
      /\ cActive' = conv
      /\ rooms' = IF joins
                    THEN [left EXCEPT ![<<"room", conv.id>>] = @ \cup {ClientConn}]
                    ELSE left
      /\ cJoined' = IF joins THEN conv.id ELSE Null
      /\ out' = (IF cJoined # Null /\ connected
                   THEN <<BasicAck(ClientConn)>> ELSE <<>>)
                \o (IF joins THEN <<BasicAck(ClientConn)>> ELSE <<>>)
      /\ UNCHANGED <<status, onlineUsers, inflight, messages, resp,
                     cMessages, cNextBefore, hLoaded, hBase, httpVars,
                     resumable, cPending>>

\* The client switches between two rooms and a direct conversation while
\* its socket connects, drops and reconnects, and another user's socket
\* sends to a room.
EffectConversations ==
  {RoomConversation("r1"), RoomConversation("r2"), DmConversation("u2")}
PeerConn == CHOOSE c \in Conns : ConnUser(c) = "u2"

EffectSwitch == \E conv \in EffectConversations : RoomEffect(conv)
EffectPeerConnect == Connect(PeerConn, TokenOf(ConnUser(PeerConn)), NoHeader)
EffectPeerSend ==
  \E r \in Rooms :
    SendMessage(PeerConn, Payload(r, Absent, Text(<<"a">>), Absent), FALSE)
EffectRoomFound == \E i \in Slots : RoomFound(i, FALSE)
EffectRoomMessageCreated ==
  \E i \in Slots : RoomMessageCreated(i, FALSE, Now(messages))

NextEffect ==
  \/ ClientConnect
  \/ ClientDisconnect
  \/ EffectSwitch
  \/ EffectPeerConnect
  \/ EffectPeerSend
  \/ EffectRoomFound
  \/ EffectRoomMessageCreated

SpecEffect == Init /\ [][NextEffect]_vars

\* ------------------------------------------- the two writers compared
\* The users u1 and u2 send the same payloads over their sockets and to
\* POST /api/messages: to the public room, to the private room of u1, to a
\* room and a user that do not exist, and to a user.
BothConns == {1, 3}
BothUsers == {ConnUser(c) : c \in BothConns}
UnknownRoom == "r9"
UnknownUser == "u9"

BothRoomPayloads ==
  {Payload(r, Absent, Text(<<"a">>), Absent) :
     r \in Rooms \cup {UnknownRoom}}
BothPrivatePayloads ==
  {Payload(Absent, u, Text(<<"a">>), Absent) : u \in {"u2", UnknownUser}}

BothConnect ==
  \E c \in BothConns : Connect(c, TokenOf(ConnUser(c)), NoHeader)
BothSendMessage ==
  \E c \in BothConns, p \in BothRoomPayloads : SendMessage(c, p, TRUE)
BothPrivateMessage ==
  \E c \in BothConns, p \in BothPrivatePayloads : PrivateMessage(c, p, TRUE)
BothRoomFound == \E i \in Slots : RoomFound(i, FALSE)
BothRecipientFound == \E i \in Slots : RecipientFound(i, FALSE)
BothRoomMessageCreated ==
  \E i \in Slots : RoomMessageCreated(i, FALSE, Now(messages))
BothPrivateMessageCreated ==
  \E i \in Slots : PrivateMessageCreated(i, FALSE, Now(messages))
\* The REST caller writes, like the sockets, while the store holds fewer
\* than MaxMessages rows.
BothPost ==
  /\ Len(messages) < MaxMessages
  /\ \E u \in BothUsers, body \in BothRoomPayloads \cup BothPrivatePayloads :
       PostMessage(CookieOf(u), body, TRUE, FALSE, FALSE, Now(messages))

NextBoth ==
  \/ BothConnect
  \/ BothSendMessage
  \/ BothPrivateMessage
  \/ BothRoomFound
  \/ BothRecipientFound
  \/ BothRoomMessageCreated
  \/ BothPrivateMessageCreated
  \/ BothPost

SpecBoth == Init /\ [][NextBoth]_vars

\* ================================================================ claims
\* The live connections of user u: sockets that connected and have not
\* closed.
LiveConns(u) == {c \in Conns : status[c] = "open" /\ ConnUser(c) = u}

\* The positions of out that hold an event of the given type.
EventsOf(seq, type) == {k \in DOMAIN seq : seq[k].type = type}

\* C1: the presence registry maps each user id to exactly the set of that
\* user's live connection ids; a user id is a key (and is returned by
\* getOnlineUserIds) iff the user has a live connection, and no key maps to
\* an empty set.
C1_PresenceRegistryExact ==
  /\ getOnlineUserIds(onlineUsers) = {u \in Users : LiveConns(u) # {}}
  /\ \A u \in DOMAIN onlineUsers :
       onlineUsers[u] = LiveConns(u) /\ onlineUsers[u] # {}

\* A user with two sessions has closed one, and another user has closed
\* the only session it had.
C1_Witness ==
  /\ status[1] = "idle" /\ status[2] = "open" /\ status[3] = "idle"
  /\ EventsOf(out, "user_offline") # {}
  /\ out[1].userId = "u2"

\* C2 (as claimed): a user_online event for U is broadcast only by a
\* connection established while U has no other live connection.
C2_OnlineOnlyOnFirstConnection ==
  \A k \in EventsOf(out, "user_online") :
    Cardinality(LiveConns(out[k].userId)) = 1

\* C3: closing a connection of U broadcasts exactly one user_offline for U
\* when it was U's last live connection and none otherwise, and no other
\* step broadcasts user_offline.
C3_OfflineExactlyOnLastClose ==
  [][/\ \A c \in Conns :
          (status[c] = "open" /\ status'[c] = "idle") =>
            IF LiveConns(ConnUser(c)) = {c}
              THEN /\ Cardinality(EventsOf(out', "user_offline")) = 1
                   /\ \A k \in EventsOf(out', "user_offline") :
                        out'[k].userId = ConnUser(c)
              ELSE EventsOf(out', "user_offline") = {}
     /\ (\A c \in Conns : status[c] = "open" => status'[c] = "open") =>
          EventsOf(out', "user_offline") = {}]_vars

\* One of the two sessions of u1 has closed while the other stays open:
\* nothing was broadcast.
C3_Witness ==
  /\ status[1] = "idle" /\ status[2] = "open"
  /\ out = <<>>

\* The connections the new_message events of a handler run reached.
Recipients(seq) == UNION {seq[k].to : k \in EventsOf(seq, "new_message")}

\* The slots whose request ends in this step.
Finishing(i) == inflight[i].pc # "none" /\ inflight'[i].pc = "none"

ValidRoomPayloads == {p \in RoomPayloads : sendRoomMessageSchema(p)}
InvalidRoomPayloads == RoomPayloads \ ValidRoomPayloads
InvalidPrivatePayloads == {p \in PrivatePayloads : ~privateMessageSchema(p)}

\* C4: a send_message request with a valid payload that names an existing
\* room stays pending until the store has answered; when the store has
\* created the row, exactly one row is persisted and exactly one new_message
\* event goes to room:<roomId>, reaching every connection that is a member of
\* that group at that moment; the steps before persist and broadcast nothing.
C4_RoomSendPersistsAndBroadcastsOnce ==
  [][/\ (/\ \E i \in Slots : inflight[i].pc = "none" /\ inflight'[i].pc # "none"
         /\ \E c \in Conns, p \in ValidRoomPayloads, a \in BOOLEAN :
              SendMessage(c, p, a)) =>
            /\ \E i \in Slots : inflight'[i].pc = "find"
                 /\ inflight[i].pc = "none"
                 /\ inflight'[i].kind = "room"
            /\ messages' = messages
            /\ EventsOf(out', "new_message") = {}
     /\ \A i \in Slots :
          (RoomFound(i, FALSE) /\ inflight[i].data.target \in Rooms) =>
            /\ inflight'[i].pc = "create"
            /\ messages' = messages
            /\ EventsOf(out', "new_message") = {}
     /\ \A i \in Slots :
          (\E now \in Nows(messages) : RoomMessageCreated(i, FALSE, now)) =>
            LET roomId == inflight[i].data.target
                row == messages'[Len(messages')]
            IN  /\ Len(messages') = Len(messages) + 1
                /\ SubSeq(messages', 1, Len(messages)) = messages
                /\ row.roomId = roomId
                /\ Cardinality(EventsOf(out', "new_message")) = 1
                /\ \A k \in EventsOf(out', "new_message") :
                     /\ out'[k].group = <<"room", roomId>>
                     /\ out'[k].to = rooms'[<<"room", roomId>>]
                     /\ out'[k].message = mapMessage(row)]_vars

\* A message of u1 to room r1 was persisted and broadcast to two members,
\* one of them a connection of u2.
C4_Witness ==
  /\ Len(messages) = 1
  /\ \E k \in EventsOf(out, "new_message") :
       /\ out[k].group = <<"room", "r1">>
       /\ out[k].message.senderId = "u1"
       /\ 3 \in out[k].to
       /\ Cardinality(out[k].to) >= 2

\* C5: a private_message whose row the store has created persists one row
\* and its new_message events reach exactly the live connections of the
\* sender and of the receiver.
C5_PrivateSendReachesBothMailboxes ==
  [][\A i \in Slots :
       (\E now \in Nows(messages) : PrivateMessageCreated(i, FALSE, now)) =>
         LET senderId == ConnUser(inflight[i].conn)
             receiverId == inflight[i].data.target
             row == messages'[Len(messages')]
         IN  /\ Len(messages') = Len(messages) + 1
             /\ row.senderId = senderId
             /\ row.receiverId = receiverId
             /\ EventsOf(out', "new_message") # {}
             /\ \A k \in EventsOf(out', "new_message") :
                  out'[k].message = mapMessage(row)
             /\ Recipients(out') =
                  {c \in Conns : status'[c] = "open"
                                   /\ ConnUser(c) \in {senderId, receiverId}}]_vars

\* u1 wrote to u3, who has no connection: both sessions of u1 got the
\* message and the connected u2 did not.
C5_Witness ==
  /\ status[3] = "open"
  /\ \E k \in EventsOf(out, "new_message") :
       /\ out[k].message.senderId = "u1"
       /\ out[k].message.receiverId = "u3"
       /\ out[k].to = {1, 2}
  /\ 3 \notin Recipients(out)

\* The acknowledgments a handler run sent.
MessageAcks(seq) == EventsOf(seq, "ack")

\* C6: a request that carries a callback gets exactly one acknowledgment,
\* sent to the originating connection, when it ends: {ok:false} when the
\* payload is invalid, the target is not found or the store fails, {ok:true}
\* with the persisted message otherwise; a pending request has none, and no
\* other step acknowledges.
C6_ExactlyOneAck ==
  [][/\ \A c \in Conns :
          (/\ status[c] = "open"
           /\ UNCHANGED <<inflight, rooms, status>>
           /\ out' # out
           /\ \/ \E p \in InvalidRoomPayloads : SendMessage(c, p, TRUE)
              \/ \E p \in InvalidPrivatePayloads : PrivateMessage(c, p, TRUE)) =>
            /\ Len(out') = 1
            /\ out'[1].type = "ack" /\ out'[1].to = {c} /\ ~out'[1].ok
     /\ \A i \in Slots :
          (Finishing(i) /\ inflight[i].hasAck) =>
            /\ Cardinality(MessageAcks(out')) = 1
            /\ \A k \in MessageAcks(out') :
                 /\ out'[k].to = {inflight[i].conn}
                 /\ out'[k].ok = (Len(messages') = Len(messages) + 1)
                 /\ out'[k].ok =>
                      out'[k].data = mapMessage(messages'[Len(messages')])
     /\ \A i \in Slots :
          (Finishing(i) /\ ~inflight[i].hasAck) => MessageAcks(out') = {}
     /\ (/\ inflight' # inflight
         /\ \A i \in Slots : ~Finishing(i)) => MessageAcks(out') = {}
     /\ (inflight' = inflight /\ MessageAcks(out') # {} /\ out' # out) =>
          /\ Len(out') = 1
          /\ ~out'[1].ok
          /\ UNCHANGED <<status, onlineUsers, rooms, messages>>]_vars

\* A request for a recipient that does not exist was acknowledged with
\* {ok:false}.
C6_Witness ==
  /\ Len(out) = 1
  /\ out[1].type = "ack"
  /\ ~out[1].ok
  /\ out[1].error = "Recipient not found."

\* C7: a request that is acknowledged with ok:false has changed neither the
\* message store nor the presence registry nor any group membership and has
\* broadcast nothing: the step that sends {ok:false} changes none of them,
\* and the only step of a request that does persists the row and ends the
\* request with {ok:true}.
C7_RejectedSendMutatesNothing ==
  [][/\ (\E k \in MessageAcks(out') : ~out'[k].ok) =>
          \/ out' = out
          \/ /\ UNCHANGED <<messages, onlineUsers, rooms, status>>
             /\ EventsOf(out', "new_message") = {}
     /\ (inflight' # inflight) =>
          \/ /\ UNCHANGED <<messages, onlineUsers, rooms, status>>
             /\ EventsOf(out', "new_message") = {}
          \/ /\ Len(messages') = Len(messages) + 1
             /\ \A k \in MessageAcks(out') : out'[k].ok]_vars

\* The store failed while a message to the occupied room r1 was being
\* created: the sender got {ok:false} and nothing was stored.
C7_Witness ==
  /\ Len(out) = 1
  /\ out[1].type = "ack"
  /\ ~out[1].ok
  /\ out[1].error = "Failed to send message."
  /\ rooms[<<"room", "r1">>] # {}
  /\ messages = <<>>

\* C8 (as claimed): every persisted message has non-empty content or a file
\* reference.
C8_StoredContentOrFile ==
  \A k \in DOMAIN messages :
    messages[k].content # <<>> \/ messages[k].fileUrl # Null

\* A key of a request body or query string is given.
Specified(v) == v # Absent
BothOrNeither(req) == Specified(req.roomId) = Specified(req.receiverId)

\* C9: listMessages and message creation each reject a request that
\* specifies both roomId and receiverId, and each reject one that specifies
\* neither: whenever an authenticated caller within its rate limit sends
\* such a request to GET or POST /api/messages, the response is a validation
\* failure (422) that carries no message, and the message table is unchanged.
C9_BothOrNeitherRejected ==
  [][(/\ resp' # resp \/ messages' # messages
      /\ resp'.op \in {"GET", "POST"}
      /\ resp'.sub # Null
      /\ BothOrNeither(resp'.req))
       => /\ resp'.status = 422
          /\ resp'.messages = <<>>
          /\ messages' = messages]_vars

RoomIndices(r) == {i \in 1..Len(messages) : messages[i].roomId = r}
Ids(seq) == {seq[k].id : k \in 1..Len(seq)}

\* The room's rows carry strictly increasing creation timestamps.
StrictlyIncreasingIn(r) ==
  \A i, j \in RoomIndices(r) :
    i < j => messages[i].createdAt < messages[j].createdAt

\* The client pages through a room whose rows have strictly increasing
\* timestamps and that received no row since the first page was read.
PagingRoom ==
  /\ cActive.kind = "room"
  /\ hLoaded
  /\ StrictlyIncreasingIn(cActive.id)
  /\ \A i \in RoomIndices(cActive.id) : i <= hBase

\* The pages merged so far hold exactly the rows of the room, once each, in
\* ascending order of creation time.
RoundTrip ==
  /\ Ids(cMessages) = {messages[i].id : i \in RoomIndices(cActive.id)}
  /\ Len(cMessages) = Cardinality(RoomIndices(cActive.id))
  /\ \A k \in 1..(Len(cMessages) - 1) :
       ParseDate(cMessages[k].createdAt)
         < ParseDate(cMessages[k + 1].createdAt)

\* C10: for a room whose messages have strictly increasing creation
\* timestamps, reading the newest page and then following nextBefore until
\* it is null returns every message exactly once: each older page holds no
\* message of an earlier page and only messages older than all of them, and
\* when nextBefore is null the pages, concatenated older page first, are
\* exactly the room's messages in ascending creation-time order.
C10_PaginationRoundTrip ==
  [][/\ (/\ PagingRoom
         /\ resp' # resp
         /\ resp'.op = "GET" /\ resp'.status = 200
         /\ resp'.req.before # NoBefore)
          => /\ Ids(resp'.messages) \cap Ids(cMessages) = {}
             /\ cMessages' = resp'.messages \o cMessages
             /\ \A k \in 1..Len(resp'.messages), n \in 1..Len(cMessages) :
                  ParseDate(resp'.messages[k].createdAt)
                    < ParseDate(cMessages[n].createdAt)
     /\ (PagingRoom /\ cNextBefore = NoCursor => RoundTrip)']_vars

\* Three room messages and one direct message are stored; the client read the
\* room in more than one page and reached the end.
C10_Witness ==
  /\ PagingRoom
  /\ cNextBefore = NoCursor
  /\ resp.op = "GET" /\ resp.status = 200 /\ resp.req.before # NoBefore
  /\ Len(cMessages) = 3
  /\ Len(messages) = MaxStored
  /\ RoundTrip

\* A row belongs to the conversation the client has open.
InConversation(row, active) ==
  IF active.kind = "room" THEN row.roomId = active.id
  ELSE /\ active.kind = "dm"
       /\ \/ row.senderId = ClientUser /\ row.receiverId = active.id
          \/ row.senderId = active.id /\ row.receiverId = ClientUser

ConversationIndices == {i \in 1..Len(messages) : InConversation(messages[i], cActive)}

\* The rows of the conversation that existed when its first page was read,
\* and those inserted since.
AtFirstRead == {i \in ConversationIndices : i <= hBase}
InsertedSince == {i \in ConversationIndices : i > hBase}

DistinctTimes(indices) ==
  \A i, j \in indices : i # j => messages[i].createdAt # messages[j].createdAt

Min(a, b) == IF a < b THEN a ELSE b

\* The client is about to follow a cursor; rows inserted into the
\* conversation since the first read are all later than the cursor.
PagingUnderInserts ==
  /\ hLoaded
  /\ cNextBefore # NoCursor
  /\ DistinctTimes(AtFirstRead)
  /\ \A i \in InsertedSince : messages[i].createdAt > ParseDate(cNextBefore)

\* C11: when messages later than the cursor are inserted into a conversation
\* between two page reads, the read with before = nextBefore returns exactly
\* the next-older messages that existed at the first read: none that an
\* earlier page returned, none of the inserted ones, as many as the limit
\* allows, and no older message is skipped in favour of a still older one.
C11_StableUnderInserts ==
  [][(/\ PagingUnderInserts
      /\ resp' # resp
      /\ UNCHANGED cActive
      /\ resp'.op = "GET" /\ resp'.status = 200
      /\ resp'.req.before = cNextBefore)
       => LET unread == {i \in AtFirstRead : messages[i].id \notin Ids(cMessages)}
              got == Ids(resp'.messages)
          IN  /\ got \subseteq {messages[i].id : i \in unread}
              /\ Cardinality(got) = Len(resp'.messages)
              /\ Len(resp'.messages)
                   = Min(resp'.req.limit.value, Cardinality(unread))
              /\ \A i, j \in unread :
                   messages[i].id \notin got /\ messages[j].id \in got
                     => messages[i].createdAt < messages[j].createdAt]_vars

\* A row was inserted into the open conversation after its first page was
\* read, and the client then read an older page.
C11_Witness ==
  /\ hLoaded
  /\ InsertedSince # {}
  /\ DistinctTimes(AtFirstRead)
  /\ resp.op = "GET" /\ resp.status = 200 /\ resp.req.before # NoBefore
  /\ resp.messages # <<>>
  /\ Ids(resp.messages) \subseteq Ids(cMessages)
  /\ \A i \in InsertedSince : messages[i].id \notin Ids(cMessages)

\* The rows of room r, oldest first, as GET maps them.
RoomHistory(r, store) ==
  LET rows == SelectSeq(store, LAMBDA row : row.roomId = r)
  IN  [i \in 1..Len(rows) |-> mapMessage(rows[i])]

\* C12: GET /api/messages?roomId=R by an authenticated caller within its rate
\* limit: when R is private and the caller is not its creator the response
\* is 403 and carries no message; otherwise (R public, or the caller is the
\* creator) the response is 200 and carries messages of R only, the whole
\* history of R when it fits the page.
C12_PrivateRoomReadByCreatorOnly ==
  [][(/\ resp' # resp
      /\ resp'.op = "GET"
      /\ resp'.sub # Null
      /\ messageHistoryQuerySchema(resp'.req)
      /\ resp'.req.roomId \in Rooms)
       => LET room == RoomTable[resp'.req.roomId]
          IN  IF room.isPrivate /\ room.creatorId # resp'.sub
                THEN resp'.status = 403 /\ resp'.messages = <<>>
                ELSE /\ resp'.status = 200
                     /\ \A k \in 1..Len(resp'.messages) :
                          resp'.messages[k].roomId = resp'.req.roomId
                     /\ Len(RoomHistory(resp'.req.roomId, messages'))
                          <= ParsedLimit(resp'.req)
                          => resp'.messages
                               = RoomHistory(resp'.req.roomId, messages')]_vars

\* The private room holds a message and a user who is not its creator was
\* refused its history.
C12_Witness ==
  /\ RoomHistory("r2", messages) # <<>>
  /\ resp.op = "GET" /\ resp.req.roomId = "r2"
  /\ resp.sub \in Users \ {RoomTable["r2"].creatorId}
  /\ resp.status = 403

\* A step in which enforceRateLimit ran.
LimiterRan == rateStore' # rateStore \/ decision' # decision

\* C13 (as claimed): a request the rate limiter rejects leaves the rate-limit
\* store unchanged, the entry of its own key and every other entry, and the
\* rejection reports the reset time of the window.
C13_RejectionLeavesStoreUnchanged ==
  [][LimiterRan /\ ~decision'.ok
       => /\ rateStore' = rateStore
          /\ decision'.resetAt = rateStore[decision'.key].resetAt]_vars

\* C13 (amended): a request the rate limiter rejects finds its key inside a
\* window whose count has reached max; the rejection adds one to that count
\* and keeps its resetAt, removes the entries of other keys whose window has
\* elapsed and leaves every other entry as it was, changes nothing outside
\* the limiter, and reports the reset time of the window.
C13_RejectionCountsAndKeepsWindow ==
  [][LimiterRan /\ ~decision'.ok
       => LET key == decision'.key
          IN  /\ key \in DOMAIN rateStore
              /\ rateStore[key].resetAt > dateNow
              /\ rateStore[key].count >= RateOptions(key[1]).max
              /\ rateStore'[key] = [count |-> rateStore[key].count + 1,
                                    resetAt |-> rateStore[key].resetAt]
              /\ DOMAIN rateStore' \subseteq DOMAIN rateStore
              /\ \A other \in DOMAIN rateStore \ {key} :
                   IF other \in DOMAIN rateStore'
                     THEN rateStore'[other] = rateStore[other]
                     ELSE rateStore[other].resetAt <= dateNow
              /\ decision'.resetAt = rateStore[key].resetAt
              /\ UNCHANGED <<serverVars, resp, clientVars, uploads>>]_vars

\* A call beyond max was rejected while another key has an entry.
C13_Witness ==
  /\ ~decision.ok
  /\ decision.key \in DOMAIN rateStore
  /\ rateStore[decision.key].count > RateOptions(decision.key[1]).max
  /\ decision.resetAt = rateStore[decision.key].resetAt
  /\ DOMAIN rateStore # {decision.key}

\* C14: for a limit {max, windowMs} on one key: a call inside the key's
\* window is the (count + 1)-th of the window and is admitted iff that number
\* is at most max, so the first max calls are admitted and every further one
\* is rejected, with a Retry-After between 1 and ceil(windowMs / 1000)
\* seconds; a call when the key has no window or its window has elapsed is
\* admitted and sets the count to 1 with a window that ends windowMs later.
C14_FixedWindow ==
  [][LimiterRan
       => LET key == decision'.key
              options == RateOptions(key[1])
              inside == /\ key \in DOMAIN rateStore
                        /\ rateStore[key].resetAt > dateNow
          IN  /\ key \in DOMAIN rateStore'
              /\ IF inside
                   THEN /\ rateStore'[key].count = rateStore[key].count + 1
                        /\ rateStore'[key].resetAt = rateStore[key].resetAt
                        /\ decision'.ok
                             <=> rateStore'[key].count <= options.max
                        /\ ~decision'.ok =>
                             decision'.retryAfter
                               \in 1..Ceil(options.windowMs, 1000)
                   ELSE /\ decision'.ok
                        /\ rateStore'[key] =
                             [count |-> 1,
                              resetAt |-> dateNow + options.windowMs]]_vars

\* The call after the first max calls of a window was rejected with the
\* largest Retry-After.
C14_Witness ==
  /\ ~decision.ok
  /\ rateStore[decision.key].count = RateOptions(decision.key[1]).max + 1
  /\ decision.retryAfter = Ceil(WindowMs, 1000)

\* The handshake presents a token field that verifies, or no token field and
\* a chat_token cookie that verifies.
CredentialVerifies(authField, cookieHeader) ==
  \/ authField # NoToken /\ verifyAuthToken(authField) # Null
  \/ /\ authField = NoToken
     /\ verifyAuthToken(extractAuthTokenFromCookieHeader(cookieHeader)) # Null

\* C15: a connection becomes authenticated iff the credential of its
\* handshake verifies, the credential being the auth token field when one is
\* supplied and the chat_token cookie otherwise. An accepted handshake opens
\* the connection, registers its presence and joins its mailbox; every other
\* handshake ends with an Unauthorized error and changes nothing. A
\* connection that is not authenticated is in no group and in no presence
\* set, and no client event of it is acknowledged.
C15_AuthenticatedIffCredentialVerifies ==
  [][/\ \A c \in Conns :
          \A a \in AuthFields(ConnUser(c)), h \in CookieHeaders(ConnUser(c)) :
            Connect(c, a, h) =>
              IF CredentialVerifies(a, h)
                THEN /\ status'[c] = "open"
                     /\ ConnUser(c) \in DOMAIN onlineUsers'
                     /\ c \in onlineUsers'[ConnUser(c)]
                     /\ c \in rooms'[<<"user", ConnUser(c)>>]
                ELSE /\ out' = <<ConnectError(c)>>
                     /\ UNCHANGED <<status, onlineUsers, rooms, inflight,
                                    messages>>
     /\ \A c \in Conns :
          status'[c] = "idle" =>
            /\ \A g \in Groups : c \notin rooms'[g]
            /\ \A u \in DOMAIN onlineUsers' : c \notin onlineUsers'[u]
     /\ \A c \in Conns :
          status[c] = "idle" /\ status'[c] = "idle" =>
            \A k \in DOMAIN out' :
              out'[k].type \in {"ack", "basic_ack"} => c \notin out'[k].to]_vars

\* A handshake was refused while another connection is open, and the refused
\* socket is in no group and in no presence set.
C15_Witness ==
  /\ out # <<>>
  /\ out[1].type = "connect_error"
  /\ \E c \in out[1].to :
       /\ status[c] = "idle"
       /\ \A g \in Groups : c \notin rooms[g]
       /\ \E d \in Conns \ {c} : status[d] = "open" /\ ConnUser(d) = ConnUser(c)

\* Events the server pushes, as opposed to acknowledgments it returns.
Pushed == {"new_message", "typing", "user_online", "user_offline"}

\* The request in slot i was issued by a connection that has closed.
Orphaned(i) == inflight[i].pc # "none" /\ status[inflight[i].conn] = "idle"

\* C16: no pushed event (new_message, typing, presence) is delivered to a
\* connection that has closed, the one of the closing connection's own
\* user_offline included. Closing a connection leaves its pending send
\* requests and the message table as they are, and when the store then
\* creates the row of such a request the message is persisted under the
\* closed connection's principal and broadcast to the members the target
\* group has at that moment.
C16_CloseCancelsDeliveryNotRequests ==
  [][/\ out' # out =>
          \A k \in DOMAIN out' :
            out'[k].type \in Pushed => out'[k].to \subseteq Open(status')
     /\ \A c \in Conns :
          status[c] = "open" /\ status'[c] = "idle" =>
            inflight' = inflight /\ messages' = messages
     /\ \A i \in Slots :
          Orphaned(i) /\ Finishing(i) /\ messages' # messages =>
            LET row == messages'[Len(messages')]
                group == IF inflight[i].kind = "room"
                           THEN {<<"room", inflight[i].data.target>>}
                           ELSE {<<"user", inflight[i].data.target>>,
                                 <<"user", ConnUser(inflight[i].conn)>>}
            IN  /\ Len(messages') = Len(messages) + 1
                /\ row.senderId = ConnUser(inflight[i].conn)
                /\ inflight[i].data.target \in {row.roomId, row.receiverId}
                /\ EventsOf(out', "new_message") # {}
                /\ \A k \in EventsOf(out', "new_message") :
                     out'[k].message = mapMessage(row)
                /\ Recipients(out') = UNION {rooms[g] : g \in group}]_vars

\* The room message of a connection that closed while the store was working
\* was persisted and delivered to a member of the room.
C16_Witness ==
  /\ messages # <<>>
  /\ \E k \in EventsOf(out, "new_message") :
       /\ out[k].to # {}
       /\ out[k].message.id = messages[Len(messages)].id
       /\ out[k].message.roomId = "r1"
       /\ \A c \in Conns :
            ConnUser(c) = out[k].message.senderId => status[c] = "idle"

\* C17: every persisted message carries exactly one of roomId and
\* receiverId: a message created by the room path (socket or REST) has its
\* roomId set and its receiverId null, one created by the direct path has
\* its receiverId set and its roomId null.
ExactlyOneTarget(row) == (row.roomId = Null) # (row.receiverId = Null)

RoomPathStep ==
  \/ \E i \in Slots : Finishing(i) /\ inflight[i].kind = "room"
  \/ resp' # resp /\ resp'.op = "POST" /\ isRoomMessage(resp'.req)

DirectPathStep ==
  \/ \E i \in Slots : Finishing(i) /\ inflight[i].kind = "dm"
  \/ resp' # resp /\ resp'.op = "POST" /\ ~isRoomMessage(resp'.req)

Inserted == messages'[Len(messages')]

PathSetsItsTarget ==
  Len(messages') = Len(messages) + 1 =>
    /\ SubSeq(messages', 1, Len(messages)) = messages
    /\ RoomPathStep => Inserted.roomId # Null /\ Inserted.receiverId = Null
    /\ DirectPathStep => Inserted.roomId = Null /\ Inserted.receiverId # Null
    /\ RoomPathStep \/ DirectPathStep

C17_ExactlyOneTarget ==
  /\ [](\A k \in 1 .. Len(messages) : ExactlyOneTarget(messages[k]))
  /\ [][PathSetsItsTarget]_vars

\* A store that holds a room message and a direct message, after a caller
\* named both targets in one REST body.
C17_Witness ==
  /\ \E k \in 1 .. Len(messages) : messages[k].roomId # Null
  /\ \E k \in 1 .. Len(messages) : messages[k].receiverId # Null
  /\ resp.op = "POST" /\ resp.status = 201
  /\ resp.req.roomId # Absent /\ resp.req.receiverId # Absent

\* C18: a list request with limit L (MinLimit..MaxLimit, DefaultLimit when
\* the query has none) returns at most L messages: the L most recent
\* messages of the conversation created strictly before `before` (all of
\* the conversation when `before` is absent), in ascending creation-time
\* order; nextBefore is the creation timestamp of the oldest returned
\* message when an older matching message exists, and none otherwise.
Listed == resp' # resp /\ resp'.op = "GET"

AskedConversation(row, q, sub) ==
  IF q.roomId # Absent THEN row.roomId = q.roomId
  ELSE \/ row.senderId = sub /\ row.receiverId = q.receiverId
       \/ row.senderId = q.receiverId /\ row.receiverId = sub

Candidates(q, sub) ==
  {k \in 1 .. Len(messages) :
     /\ AskedConversation(messages[k], q, sub)
     /\ q.before # NoBefore => messages[k].createdAt < q.before[2]}

AskedLimit(q) == IF q.limit = NoLimit THEN DefaultLimit ELSE q.limit.value

ListedPage ==
  LET q == resp'.req
      page == resp'.messages
      cand == Candidates(q, resp'.sub)
      L == AskedLimit(q)
      returned == {k \in cand : \E i \in 1 .. Len(page) : page[i].id = messages[k].id}
  IN  IF AskedLimit(q) \notin MinLimit .. MaxLimit THEN resp'.status = 422
      ELSE /\ resp'.status = 200
           /\ Len(page) = Min(L, Cardinality(cand))
           /\ Cardinality(returned) = Len(page)
           /\ \A i \in 1 .. Len(page) :
                \E k \in returned : page[i] = mapMessage(messages[k])
           /\ \A k \in returned, o \in cand \ returned :
                messages[o].createdAt <= messages[k].createdAt
           /\ \A i, j \in 1 .. Len(page) :
                i < j => page[i].createdAt[2] <= page[j].createdAt[2]
           /\ resp'.nextBefore =
                IF Cardinality(cand) > L THEN page[1].createdAt ELSE NoCursor

C18_ListLimit == [][Listed => ListedPage]_vars

\* A page of two messages cut from a conversation of three or more rows of
\* distinct timestamps, with a cursor for the rest.
C18_Witness ==
  /\ resp.op = "GET" /\ resp.status = 200
  /\ resp.req.limit = Limit(2) /\ resp.req.before # NoBefore
  /\ Len(resp.messages) = 2
  /\ resp.messages[1].createdAt # resp.messages[2].createdAt
  /\ resp.nextBefore # NoCursor

\* C19: every persisted message's file reference, when present, is a path
\* that a successful upload returned earlier; a send whose fileUrl names a
\* path that was never uploaded is rejected and persists nothing.
C19_FileUrlWasUploaded ==
  \A k \in 1 .. Len(messages) :
    messages[k].fileUrl # Null => messages[k].fileUrl \in uploads

\* C20: the senderId of every persisted message and the userId/userName of
\* every relayed typing event are the id and name of the verified principal
\* of the connection or request that issued it; no field of the payload
\* makes a message or a typing event appear to come from another user.
TypingEvents == {out[k] : k \in EventsOf(out, "typing")}

TypingFromPrincipal(e) ==
  /\ e.userId # Forger
  /\ \E c \in Conns \ e.to :
       /\ status[c] = "open"
       /\ e.userId = ConnUser(c)
       /\ e.userName = UserName(ConnUser(c))

SenderIsPrincipal ==
  Len(messages') = Len(messages) + 1 =>
    /\ Inserted.senderId # Forger
    /\ \A i \in Slots :
         Finishing(i) => Inserted.senderId = ConnUser(inflight[i].conn)
    /\ resp' # resp =>
         /\ resp'.sub = verifyAuthToken(TokenOf(Inserted.senderId))
         /\ resp'.messages[1].senderId = resp'.sub
         /\ resp'.messages[1].senderName = UserName(resp'.sub)

C20_AuthorIsVerifiedPrincipal ==
  /\ [](\A e \in TypingEvents : TypingFromPrincipal(e))
  /\ [](\A k \in 1 .. Len(messages) : messages[k].senderId # Forger)
  /\ [][SenderIsPrincipal]_vars

\* A typing event relayed to u1 from a payload that names the forger as its
\* user, and a message created by a REST body that names the forger as its
\* sender.
C20_Witness ==
  /\ \E e \in TypingEvents :
       e.receiverId = "u1" /\ e.to # {} /\ e.userId = "u2"
  /\ resp.op = "POST" /\ resp.status = 201
  /\ "senderId" \in DOMAIN resp.req /\ resp.req.senderId = Forger
  /\ messages # <<>>

\* C21: from the moment a connection is authenticated until it closes it is
\* a member of the mailbox group of its own principal and of no other user's
\* mailbox group; no join_room or leave_room event, whatever its roomId,
\* adds or removes a mailbox membership.
MailboxOf(u) == rooms[<<"user", u>>]

C21_MailboxMembershipPermanent ==
  \A c \in Conns, u \in Users :
    c \in MailboxOf(u) <=> (status[c] = "open" /\ ConnUser(c) = u)

\* A connection of u1 has joined the group whose id spells u2's mailbox
\* while u2 is connected, and has left the room it had joined.
C21_Witness ==
  /\ 1 \in rooms[<<"room", MailboxLikeId>>]
  /\ status[3] = "open"
  /\ out = <<BasicAck(1)>>
  /\ 1 \notin rooms[<<"room", "r1">>]

\* C22: a send whose content is absent, empty or empty after sanitization
\* and which carries a valid file reference is accepted and persisted with
\* content exactly "Shared a file"; a send whose sanitized content is
\* non-empty is persisted with exactly that sanitized content.
RawContent(data) == IF data.content.present THEN data.content.text ELSE <<>>

WithValidFile ==
  {p \in ContentRoomPayloads \cup ContentPrivatePayloads :
     p.fileUrl # Absent /\ StartsWithUploads(p.fileUrl)}

AcceptedBySchema(p) ==
  IF p.roomId # Absent THEN sendRoomMessageSchema(p)
  ELSE privateMessageSchema(p)

PersistsContentOrPlaceholder ==
  \A i \in Slots :
    Finishing(i) /\ Len(messages') = Len(messages) + 1 =>
      LET data == inflight[i].data
          clean == sanitizeMessageContent(RawContent(data))
      IN  /\ clean # <<>> => Inserted.content = clean
          /\ clean = <<>> /\ data.fileUrl # Absent =>
               /\ Inserted.content = SharedAFile
               /\ Inserted.fileUrl = data.fileUrl

C22_PlaceholderForFileOnly ==
  /\ [](\A p \in WithValidFile : AcceptedBySchema(p))
  /\ [][PersistsContentOrPlaceholder]_vars

\* A stored message with the placeholder content and a file reference,
\* acknowledged to its sender.
C22_Witness ==
  /\ messages # <<>>
  /\ messages[1].content = SharedAFile
  /\ messages[1].fileUrl = "/uploads/f1"
  /\ \E k \in EventsOf(out, "ack") : out[k].ok

\* C23: sanitizeMessageContent is idempotent: sanitizing the sanitized
\* content of any input gives the same string again.
Sanitizing ==
  {inflight[i].data.content.text :
     i \in {j \in Slots : inflight[j].pc # "none"
                          /\ inflight[j].data.content.present}}

C23_SanitizeIdempotent ==
  /\ \A x \in Sanitizing :
       sanitizeMessageContent(sanitizeMessageContent(x))
         = sanitizeMessageContent(x)
  /\ \A k \in 1 .. Len(messages) :
       sanitizeMessageContent(messages[k].content) = messages[k].content

\* A request about to be stored whose content is a bracket followed by a
\* blank: the blank is at the edge only once the bracket is gone.
C23_Witness ==
  \E i \in Slots :
    /\ inflight[i].pc = "create"
    /\ inflight[i].data.content.text = <<"lt", "sp">>
    /\ sanitizeMessageContent(<<"lt", "sp">>) = <<>>

\* C24 (as claimed): the result of sanitizeMessageContent holds no C0 control
\* character, no C1 control character, no '<' and no '>', has no leading or
\* trailing white space, and keeps all other characters in their order.
C0Controls == {"tab", "c0"}
C1Controls == {"c1"}
Brackets == {"lt", "gt"}

Removable(ch) == ch \in C0Controls \cup C1Controls \cup Brackets

NoEdgeWhiteSpace(s) ==
  s # <<>> => ~IsWhiteSpace(s[1]) /\ ~IsWhiteSpace(s[Len(s)])

C24_SanitizedIsClean ==
  \A x \in Sanitizing :
    LET y == sanitizeMessageContent(x)
        kept == SelectSeq(x, LAMBDA ch : ~Removable(ch))
    IN  /\ \A k \in 1 .. Len(y) : ~Removable(y[k])
        /\ NoEdgeWhiteSpace(y)
        /\ y = TrimEnd(TrimStart(kept))

\* C25 (as claimed): each persisted message is delivered as a new_message
\* event at most once to any given connection, for every room message and
\* every direct message, whatever the sender and the receiver are.
C25_DeliveredAtMostOnce ==
  \A c \in Conns :
    \A j, k \in EventsOf(out, "new_message") :
      (out[j].message.id = out[k].message.id /\ c \in out[j].to /\ c \in out[k].to)
        => j = k

\* C26 (as claimed): of two messages sent concurrently to one room, every
\* connection that stays joined to the room receives the new_message events
\* in the order in which the messages were persisted: no message is
\* broadcast to the room's members while an earlier row of the same room
\* has yet to be broadcast.
C26_DeliveredInStoreOrder ==
  [][\A r \in resumable :
       (resumable' = resumable \ {r} /\ Recipients(out') # {}) =>
         \A q \in resumable' :
           q.row.roomId = r.row.roomId => q.row.id > r.row.id]_vars

\* C27 (as claimed): every message in the chat client's displayed list
\* belongs to the active conversation, under any interleaving of
\* conversation switches, history-load responses, send acknowledgments and
\* incoming new_message events.
C27_DisplayedBelongToActive ==
  \A k \in 1 .. Len(cMessages) :
    isMessageForActiveConversation(cMessages[k], cActive)

\* C28 (as claimed): whenever the chat client's socket is connected and a
\* room is the active conversation, the client's connection is a member of
\* that room's group (it has emitted join_room and not leave_room) and
\* receives the room's new_message events; this includes the room that is
\* active when the connection is established and after a reconnect.
C28_ActiveRoomJoined ==
  (status[ClientConn] = "open" /\ cActive.kind = "room") =>
    ClientConn \in rooms[<<"room", cActive.id>>]

\* C29 (as claimed): paging backwards through a conversation by following
\* nextBefore until it is none returns every stored message of the
\* conversation exactly once, whatever the creation timestamps are,
\* including messages that share a creation timestamp.
PagedToTheEnd ==
  /\ cActive # NoConversation
  /\ hLoaded
  /\ cNextBefore = NoCursor
  /\ \A i \in ConversationIndices : i <= hBase

C29_PagingCompleteWithTies ==
  PagedToTheEnd =>
    /\ Ids(cMessages) = {messages[i].id : i \in ConversationIndices}
    /\ Len(cMessages) = Cardinality(ConversationIndices)

\* C30 (as claimed): POST /api/messages and the socket handlers
\* send_message / private_message are equivalent writers of the message
\* store: for the same authenticated principal and the same payload, when
\* the socket path persists a row the REST path persists the same row
\* (senderId, roomId, receiverId, content, fileUrl), and when the socket
\* path refuses the payload the REST path refuses it too.
PayloadOf(req) ==
  IF req.kind = "room"
    THEN Payload(req.data.target, Absent, req.data.content, req.data.fileUrl)
    ELSE Payload(Absent, req.data.target, req.data.content, req.data.fileUrl)

SocketPersists(i) ==
  /\ inflight[i].pc = "create"
  /\ inflight'[i].pc = "none"
  /\ Len(messages') = Len(messages) + 1

SocketRefuses(i) ==
  /\ inflight[i].pc = "find"
  /\ inflight'[i].pc = "none"
  /\ messages' = messages

RestOutcome(req, now) ==
  POST(CookieOf(ConnUser(req.conn)), PayloadOf(req), TRUE, FALSE, FALSE,
       now, messages)

C30_WritersEquivalent ==
  [][\A i \in Slots :
       /\ SocketPersists(i) =>
            RestOutcome(inflight[i], messages'[Len(messages')].createdAt).row
              = messages'[Len(messages')]
       /\ SocketRefuses(i) =>
            RestOutcome(inflight[i], Now(messages)).row = NoRow]_vars

====
